---- MODULE Spec2Model ----
(***************************************************************************)
(* Verification model of clickspectre: the query-log collector with its    *)
(* retry/timeout helper, the baseline engine, the recommender and the      *)
(* analyzer's table model.  Each component has its own specification       *)
(* (SpecRetry, SpecFetch, ...) over the shared variables below.            *)
(***************************************************************************)
EXTENDS Integers, Naturals, Sequences, FiniteSets, TLC

VARIABLES
    comp,        \* which component's specification is running
    \* ---- retry helper (internal/collector/retry.go) ----
    cfg,         \* retryConfig handed to executeWithRetry (before normalized())
    pc,          \* position inside executeWithRetry
    attempt,     \* loop variable `attempt`
    backoff,     \* loop variable `backoff` (milliseconds)
    lastErr,     \* variable `lastErr`
    outcomes,    \* results of the calls of fn made by the current executeWithRetry
    sleeps,      \* durations handed to cfg.sleep by the current executeWithRetry
    retErr,      \* value returned by executeWithRetry
    ctx,         \* the context handed to executeWithRetry: [err, cause]
    timer,       \* time.AfterFunc timer of withTotalTimeoutContext
    deadlineAt,  \* position of executeWithRetry when the deadline took effect
    lateCalls,   \* calls of fn started while the context was already done
    \* ---- query-log collector (FetchQueryLogs / processBatch) ----
    qlog,        \* rows of system.query_log matching the query, newest first
    fcfg,        \* config view: [BatchSize, MaxRows, QueryTimeout]
    fpc,         \* position inside FetchQueryLogs
    rows,        \* *sql.Rows of the current batch (the page the query returned)
    offset,      \* variable `offset`
    totalProcessed,
    allEntries,  \* variable `allEntries`
    offsets,     \* OFFSET argument of every batch query that succeeded or failed
    fetchErr,    \* error returned by FetchQueryLogs
    \* ---- baseline engine (internal/baseline) ----
    report,      \* the models.Report the baseline functions work on
    bpc,         \* last baseline operation performed on the report
    fingerprints,\* result of the last CollectFingerprints
    findings,    \* result of the last GenerateFindings
    previous,    \* fingerprints and findings of the run before the current one
    before,      \* the report as it was when the last suppression was called
    known,       \* fingerprints the last suppression was called with
    suppressed,  \* count returned by the last suppression
    remaining,   \* findings counted after the last suppression
    files,       \* baseline files on disk, by path
    saved,       \* [path, set] of the last successful Save
    loaded,      \* [set, err] returned by the last Load
    \* ---- analyzer and recommender (internal/analyzer, internal/scorer) ----
    tables,      \* Analyzer.tables: table name -> models.Table
    services,    \* Analyzer.services: client -> models.Service
    edges,       \* the edge map of buildEdges: (client, table) -> models.Edge
    anomalies,   \* Analyzer.anomalies
    logEntries,  \* the query-log entries handed to Analyze
    catalog,     \* the rows of system.tables FetchTableMetadata reads
    acfg,        \* config view of the analyzer
    apc,         \* position inside Analyze
    cleanupRecs, \* models.CleanupRecommendations of GenerateRecommendations
    spc,         \* position of the recommender
    pastRecs,    \* the recommendations of the earlier runs over these inputs
    \* ---- the analyze command (cmd/clickspectre) ----
    ccfg,        \* baseline_path, update_baseline and dry_run of the run
    cpc,         \* position inside runAnalyze
    exitCode,    \* exit code of the process, -1 while it runs
    fileOps,     \* baseline file operations of the run: <<kind, path>>
    runsLog,     \* one record for every run that ended
    \* ---- workload resolver (internal/k8s) ----
    cache,       \* Cache.entries: address -> [Info, ExpiresAt]
    clock,       \* time.Now() of the resolver, in ticks
    lookups,     \* one record for every ResolveIP call of buildServiceModel
    \* ---- the commands and what they send out (cmd/clickspectre) ----
    command,     \* the command line of the process
    mpc,         \* position inside the command
    dbLog,       \* statements sent to ClickHouse, in order
    k8sLog,      \* Kubernetes API calls made: [verb, resource]
    localFiles,  \* local files the command has written
    \* ---- the worker pool (internal/collector/worker_pool.go) ----
    workers,     \* WorkerPool.workers
    jobs,        \* the buffered channel p.jobs
    results,     \* the buffered channel p.results
    closed,      \* the channels of the pool that are closed
    wg,          \* the counter of p.wg
    pctx,        \* p.ctx: "nil" before the first Start, then "live" or "done"
    started,     \* p.started
    parentDone,  \* the context handed to Start is cancelled
    goroutines,  \* the worker goroutines: [pc, job]
    callers,     \* the goroutines that call the pool: [pc, arg, calls]
    submitted,   \* the entries Submit has put into p.jobs, in order
    readOut,     \* the entries the consumer has received from Results()
    faults,      \* the run-time panics raised so far
    crashed,     \* an unrecovered panic has ended the process
    phist,       \* what has been called: [starts, stopCalls, stopReturns,
                 \* submits, lateSubmit]
    \* ---- the report built from the analyzer's models (buildReport) ----
    an,          \* the table, service and edge models the analyzer holds
    arrays,      \* the backing arrays of the slices, by address
    rep,         \* the models.Report built, NoReport before
    built        \* the values the report held when it was built

retryVars == <<cfg, pc, attempt, backoff, lastErr, outcomes, sleeps, retErr,
               ctx, timer, deadlineAt, lateCalls>>
fetchVars == <<qlog, fcfg, fpc, rows, offset, totalProcessed, allEntries,
               offsets, fetchErr>>
baseVars == <<report, bpc, fingerprints, findings, previous, before, known,
              suppressed, remaining, files, saved, loaded>>
modelVars == <<tables, services, edges, anomalies>>
analyzerVars == <<logEntries, catalog, acfg, apc>>
scorerVars == <<cleanupRecs, spc, pastRecs>>
cliVars == <<ccfg, cpc, exitCode, fileOps, runsLog>>
resolverVars == <<cache, clock, lookups>>
commandVars == <<command, mpc, dbLog, k8sLog, localFiles>>
\* the components modelled after the resolver
poolVars == <<workers, jobs, results, closed, wg, pctx, started, parentDone,
              goroutines, callers, submitted, readOut, faults, crashed, phist>>
reportVars == <<an, arrays, rep, built>>
laterVars == <<commandVars, poolVars, reportVars>>
\* everything outside the collector
restVars == <<baseVars, modelVars, analyzerVars, scorerVars, cliVars,
              resolverVars, laterVars>>
vars == <<comp, retryVars, fetchVars, baseVars, modelVars, analyzerVars,
          scorerVars, cliVars, resolverVars, laterVars>>

----------------------------------------------------------------------------
(* Bounds of the model *)
MaxCfgAttempts == 4      \* largest retryConfig.maxAttempts tried
MaxLog == 4              \* largest number of rows in the query log
MaxBatchSize == 2        \* largest batch_size tried
MaxMaxRows == 3          \* largest max_rows tried

(* Program constants, internal/collector/retry.go:13-17 *)
maxRetryAttempts == 3
initialRetryBackoff == 100
maxRetryBackoff == 2000

----------------------------------------------------------------------------
(* Errors.  An error value is a name; the operators below give what the    *)
(* classification code can observe of it.                                   *)
NoErr == "nil"
CtxCanceled == "context.Canceled"
CtxDeadline == "context.DeadlineExceeded"

QueryErrors == {"i/o timeout", "no such host",
                "code: 516, message: Authentication failed",
                "exception 516", "access denied: i/o timeout",
                "syntax error", "net timeout", "net refused",
                CtxCanceled, CtxDeadline}

\* clickhouse.Exception code carried by the error (errors.As), 0 if none
chCode(e) == IF e = "exception 516" THEN 516 ELSE 0

\* net.Error carried by the error: "none", or the value of Timeout()
netError(e) == CASE e = "net timeout" -> "timeout"
                 [] e = "net refused" -> "no-timeout"
                 [] OTHER -> "none"

\* strings.Contains(strings.ToLower(err.Error()), marker) for some marker
hasAuthSubstring(e) ==
    e \in {"code: 516, message: Authentication failed", "exception 516",
           "access denied: i/o timeout"}
hasRetryableSubstring(e) ==
    e \in {"i/o timeout", "no such host",
           "access denied: i/o timeout", "net timeout", "net refused"}

isAuthError(e) ==
    IF e = NoErr THEN FALSE
    ELSE IF chCode(e) \in {193, 194, 497, 516} THEN TRUE
    ELSE hasAuthSubstring(e)

isRetryableError(e) ==
    IF e = NoErr \/ e = CtxCanceled THEN FALSE
    ELSE IF e = CtxDeadline THEN TRUE
    ELSE IF netError(e) # "none" THEN netError(e) = "timeout"
    ELSE hasRetryableSubstring(e)

\* "classified as transient": retried by the helper
isTransient(e) == isRetryableError(e) /\ ~isAuthError(e)

----------------------------------------------------------------------------
(* retryConfig *)
RawCfgs == [maxAttempts: 0..MaxCfgAttempts,
            initialBackoff: {0, 10},
            maxBackoff: {0, 5, 30, 40}]

defaultRetryConfig ==
    [maxAttempts |-> maxRetryAttempts,
     initialBackoff |-> initialRetryBackoff,
     maxBackoff |-> maxRetryBackoff]

normalized(c) ==
    LET a == IF c.maxAttempts <= 0 THEN maxRetryAttempts ELSE c.maxAttempts
        i == IF c.initialBackoff <= 0 THEN initialRetryBackoff ELSE c.initialBackoff
        m == IF c.maxBackoff <= 0 THEN maxRetryBackoff ELSE c.maxBackoff
    IN [maxAttempts |-> a,
        initialBackoff |-> i,
        maxBackoff |-> IF m < i THEN i ELSE m]

\* retry.go:95, the loop condition
loopContinues(a, max) == a <= max

stopAfterMutant(a, max) == a + 1 = max
\* retry.go:109, `attempt == cfg.maxAttempts`
stopAfter(a, max) == a = max

failFastMutant(e, a, max) == ~isRetryableError(e) \/ stopAfter(a, max)
\* retry.go:109, the errors that end the loop at once
failFast(e, a, max) ==
    isAuthError(e) \/ ~isRetryableError(e) \/ stopAfter(a, max)

nextBackoffMutant(b, max) == b * 2
\* retry.go:120-125
nextBackoff(b, max) ==
    IF b < max
    THEN (IF b * 2 > max THEN max ELSE b * 2)
    ELSE b

----------------------------------------------------------------------------
(* Contexts.  ctx.err is ctx.Err(), ctx.cause is context.Cause(ctx).        *)
LiveCtx == [err |-> NoErr, cause |-> NoErr]
ctxDoneMutant(c) == FALSE
ctxDone(c) == c.err # NoErr

contextErrorMutant(c) == c.err
\* retry.go:147-155
contextError(c) ==
    IF c.err # NoErr
    THEN (IF c.cause # NoErr /\ c.cause # CtxCanceled THEN c.cause ELSE c.err)
    ELSE NoErr

\* the timer of withTotalTimeoutContext fires: cancelCause(DeadlineExceeded);
\* only the first cancellation of a context sets its error and cause
TimerFire ==
    /\ UNCHANGED restVars
    /\ timer = "armed"
    /\ pc \in {"loop", "infn", "sleep"} \/ fpc = "process"
    /\ timer' = "fired"
    /\ IF ctxDone(ctx)
       THEN UNCHANGED <<ctx, deadlineAt>>
       ELSE /\ ctx' = [err |-> CtxCanceled, cause |-> CtxDeadline]
            /\ deadlineAt' = IF fpc = "process" THEN "process" ELSE pc
    /\ UNCHANGED <<comp, cfg, pc, attempt, backoff, lastErr, outcomes, sleeps,
                   retErr, lateCalls>>
    /\ UNCHANGED fetchVars

\* the caller cancels the parent context; the child inherits err and cause
ParentCancel ==
    /\ UNCHANGED restVars
    /\ ~ctxDone(ctx)
    /\ pc \in {"loop", "infn", "sleep"} \/ fpc = "process"
    /\ ctx' = [err |-> CtxCanceled, cause |-> CtxCanceled]
    /\ UNCHANGED <<comp, cfg, pc, attempt, backoff, lastErr, outcomes, sleeps,
                   retErr, timer, deadlineAt, lateCalls>>
    /\ UNCHANGED fetchVars

----------------------------------------------------------------------------
(* executeWithRetry, retry.go:90-129 *)

\* entering executeWithRetry: cfg = cfg.normalized(); backoff := initialBackoff
EnterRetry(c) ==
    /\ cfg' = c
    /\ pc' = "loop"
    /\ attempt' = 1
    /\ backoff' = normalized(c).initialBackoff
    /\ lastErr' = NoErr
    /\ outcomes' = <<>>
    /\ sleeps' = <<>>
    /\ retErr' = NoErr

ReturnFromRetry(e) ==
    /\ pc' = "done"
    /\ retErr' = e

\* retry.go:95-100: loop condition, contextError check, then fn is called
RetryLoopHead ==
    /\ pc = "loop"
    /\ IF ~loopContinues(attempt, normalized(cfg).maxAttempts)
       THEN /\ ReturnFromRetry(lastErr)
            /\ UNCHANGED <<outcomes, lateCalls>>
       ELSE IF contextError(ctx) # NoErr
       THEN /\ ReturnFromRetry(contextError(ctx))
            /\ UNCHANGED <<outcomes, lateCalls>>
       ELSE /\ pc' = "infn"
            /\ lateCalls' = lateCalls + (IF ctxDone(ctx) THEN 1 ELSE 0)
            /\ UNCHANGED <<retErr, outcomes>>
    /\ UNCHANGED <<comp, cfg, attempt, backoff, lastErr, sleeps, ctx, timer,
                   deadlineAt>>

\* what retry.go:101-118 does once fn has returned e
AfterFn(e) ==
    /\ outcomes' = Append(outcomes, e)
    /\ IF e = NoErr
       THEN /\ ReturnFromRetry(NoErr)
            /\ UNCHANGED <<lastErr, sleeps>>
       ELSE /\ lastErr' = e
            /\ IF contextError(ctx) # NoErr
               THEN ReturnFromRetry(contextError(ctx)) /\ UNCHANGED sleeps
               ELSE IF failFast(e, attempt, normalized(cfg).maxAttempts)
               THEN ReturnFromRetry(e) /\ UNCHANGED sleeps
               ELSE /\ pc' = "sleep"
                    /\ sleeps' = Append(sleeps, backoff)
                    /\ UNCHANGED retErr

\* sleepWithContext, retry.go:157-171: the timer case of the select
RetrySleepElapsed ==
    /\ pc = "sleep"
    /\ backoff' = nextBackoff(backoff, normalized(cfg).maxBackoff)
    /\ attempt' = attempt + 1
    /\ pc' = "loop"
    /\ UNCHANGED <<comp, cfg, lastErr, outcomes, sleeps, retErr, ctx, timer,
                   deadlineAt, lateCalls>>

\* sleepWithContext: the ctx.Done() case; executeWithRetry then returns
\* contextError(ctx) (retry.go:113-117)
RetrySleepCtxDone ==
    /\ pc = "sleep"
    /\ ctxDone(ctx)
    /\ ReturnFromRetry(IF contextError(ctx) # NoErr THEN contextError(ctx)
                       ELSE ctx.err)
    /\ UNCHANGED <<comp, cfg, attempt, backoff, lastErr, outcomes, sleeps, ctx,
                   timer, deadlineAt, lateCalls>>

----------------------------------------------------------------------------
(* executeWithRetry called on its own, as the tests of retry.go do, under a *)
(* context made by withTotalTimeoutContext(parent, timeout)                 *)

IdleRetry ==
    /\ cfg = defaultRetryConfig /\ pc = "idle" /\ attempt = 0 /\ backoff = 0
    /\ lastErr = NoErr /\ outcomes = <<>> /\ sleeps = <<>> /\ retErr = NoErr
    /\ ctx = LiveCtx /\ timer = "off" /\ deadlineAt = "never" /\ lateCalls = 0

IdleFetch ==
    /\ fcfg = [BatchSize |-> 1, MaxRows |-> 0, QueryTimeout |-> 0]
    /\ fpc = "idle" /\ rows = <<>> /\ offset = 0 /\ totalProcessed = 0
    /\ allEntries = <<>> /\ offsets = <<>> /\ fetchErr = NoErr

\* a models.Report without findings
EmptyReport ==
    [Anomalies |-> <<>>, ZeroUsageNonReplicated |-> <<>>,
     ZeroUsageReplicated |-> <<>>, SafeToDrop |-> <<>>, LikelySafe |-> <<>>,
     Keep |-> <<>>]

\* a path at which no file exists
Missing ==
    [exists |-> FALSE, wellFormed |-> TRUE, version |-> 0, fingerprints |-> <<>>]

\* the paths at which baseline files are kept
BaselineFiles == {"baseline.json", "old.json", "bad.json", "garbage.json"}

IdleBaseline ==
    /\ report = EmptyReport /\ bpc = "idle"
    /\ fingerprints = <<>> /\ findings = <<>>
    /\ previous = [of |-> "none", fingerprints |-> <<>>, findings |-> <<>>]
    /\ before = EmptyReport /\ known = {} /\ suppressed = 0 /\ remaining = 0
    /\ files = [p \in BaselineFiles |-> Missing]
    /\ saved = [path |-> "", set |-> {}]
    /\ loaded = [path |-> "", set |-> {}, err |-> NoErr]

\* a map without keys
EmptyMap == [k \in {} |-> k]

\* models.CleanupRecommendations without entries
EmptyRecs ==
    [ZeroUsageNonReplicated |-> <<>>, ZeroUsageReplicated |-> <<>>,
     SafeToDrop |-> <<>>, LikelySafe |-> <<>>, Keep |-> <<>>]

IdleAnalyzer ==
    /\ tables = EmptyMap /\ services = EmptyMap
    /\ edges = EmptyMap /\ anomalies = <<>>
    /\ logEntries = <<>> /\ catalog = <<>>
    /\ acfg = [DetectUnusedTables |-> FALSE, ExcludeTables |-> <<>>,
              ExcludeDatabases |-> <<>>, ResolveK8s |-> FALSE,
              AnomalyDetection |-> FALSE]
    /\ apc = "idle"

IdleScorer == cleanupRecs = EmptyRecs /\ spc = "idle" /\ pastRecs = <<>>

IdleCli ==
    /\ ccfg = [BaselinePath |-> "", UpdateBaseline |-> FALSE,
               DryRun |-> FALSE]
    /\ cpc = "idle" /\ exitCode = -1 /\ fileOps = <<>> /\ runsLog = <<>>

IdleResolver == cache = EmptyMap /\ clock = 0 /\ lookups = <<>>

IdleCommands ==
    /\ command = [name |-> "none"] /\ mpc = "idle"
    /\ dbLog = <<>> /\ k8sLog = <<>> /\ localFiles = {}

\* the goroutines that call Start, Submit and Stop
Callers == {"c1", "c2"}

IdlePool ==
    /\ workers = 1 /\ jobs = <<>> /\ results = <<>> /\ closed = {} /\ wg = 0
    /\ pctx = "nil" /\ started = FALSE /\ parentDone = FALSE
    /\ goroutines = <<>>
    /\ callers = [t \in Callers |-> [pc |-> "idle", arg |-> 0, calls |-> 0]]
    /\ submitted = <<>> /\ readOut = <<>> /\ faults = {} /\ crashed = FALSE
    /\ phist = [starts |-> 0, stopCalls |-> 0, stopReturns |-> 0,
                submits |-> 0, lateSubmit |-> FALSE]

\* a nil slice
NilSlice == [arr |-> 0, len |-> 0]

\* no report has been built
NoReport == [built |-> FALSE]

\* the models of an analyzer that has seen one client use three tables:
\* three appends have left TablesUsed with three names in an array of four
FreshModels ==
    [table |-> [Reads |-> 1, Sparkline |-> NilSlice, MVDependency |-> NilSlice],
     service |-> [QueryCount |-> 1, TablesUsed |-> [arr |-> 1, len |-> 3]],
     edge |-> [Reads |-> 1]]

FreshArrays == <<<<1, 2, 3, 0>>>>

IdleReport ==
    /\ an = FreshModels /\ arrays = FreshArrays
    /\ rep = NoReport /\ built = NoReport

IdleLater == IdleCommands /\ IdlePool /\ IdleReport

IdleRest ==
    /\ IdleBaseline /\ IdleAnalyzer /\ IdleScorer /\ IdleCli /\ IdleResolver
    /\ IdleLater

\* withTotalTimeoutContext, retry.go:131-145: no timer when timeout <= 0
armTimer(timeout) == IF timeout <= 0 THEN "off" ELSE "armed"

CallExecuteWithRetry(c, timeout) ==
    /\ UNCHANGED restVars
    /\ comp = "retry"
    /\ pc = "idle"
    /\ EnterRetry(c)
    /\ timer' = armTimer(timeout)
    /\ UNCHANGED <<comp, ctx, deadlineAt, lateCalls>>
    /\ UNCHANGED fetchVars

RetryStep ==
    /\ UNCHANGED restVars
    /\ comp = "retry"
    /\ RetryLoopHead
    /\ UNCHANGED fetchVars

\* fn returns e (the tests' fn; any error, or nil)
RetryFnReturn(e) ==
    /\ UNCHANGED restVars
    /\ comp = "retry"
    /\ pc = "infn"
    /\ AfterFn(e)
    /\ UNCHANGED <<comp, cfg, attempt, backoff, ctx, timer, deadlineAt, lateCalls>>
    /\ UNCHANGED fetchVars

RetrySleepDone ==
    /\ UNCHANGED restVars
    /\ comp = "retry"
    /\ RetrySleepElapsed
    /\ UNCHANGED fetchVars

RetrySleepCancelled ==
    /\ UNCHANGED restVars
    /\ comp = "retry"
    /\ RetrySleepCtxDone
    /\ UNCHANGED fetchVars

InitRetry ==
    /\ comp = "retry"
    /\ IdleRetry
    /\ qlog = <<>>
    /\ IdleFetch
    /\ IdleRest

NextRetry ==
    \/ \E c \in RawCfgs, t \in {0, 20} : CallExecuteWithRetry(c, t)
    \/ RetryStep
    \/ \E e \in QueryErrors \cup {NoErr} : RetryFnReturn(e)
    \/ RetrySleepDone
    \/ RetrySleepCancelled
    \/ TimerFire
    \/ ParentCancel

SpecRetry == InitRetry /\ [][NextRetry]_vars

----------------------------------------------------------------------------
(* FetchQueryLogs and processBatch of the ClickHouse client                 *)

Min(a, b) == IF a < b THEN a ELSE b

\* a row of the query log: its query_id and whether processBatch keeps it
\* (a row that fails to scan, or has an empty query_id or query, is skipped)
LogRows == [id: 1..MaxLog, ok: BOOLEAN]

\* the query logs tried: rows with distinct ids, newest first
QueryLogs ==
    UNION {{q \in [1..n -> LogRows] : \A i \in 1..n : q[i].id = n + 1 - i}
           : n \in 0..MaxLog}

\* SELECT ... ORDER BY event_time DESC LIMIT lim OFFSET off
Page(q, lim, off) ==
    IF off >= Len(q) THEN <<>>
    ELSE SubSeq(q, off + 1, Min(off + lim, Len(q)))

RECURSIVE keepScanned(_)
\* the loop of processBatch: skipped rows are dropped, the others appended
keepScanned(rs) ==
    IF rs = <<>> THEN <<>>
    ELSE IF Head(rs).ok THEN <<Head(rs)>> \o keepScanned(Tail(rs))
    ELSE keepScanned(Tail(rs))

processBatchMutant(rs, k, iterErr) ==
    LET entries == keepScanned(SubSeq(rs, 1, k))
    IN IF iterErr # NoErr
       THEN [entries |-> <<>>, err |-> iterErr]
       ELSE [entries |-> entries, err |-> NoErr]
\* processBatch when rows.Next() delivers the first k rows and rows.Err()
\* is then iterErr (NoErr when the iteration ends normally)
processBatch(rs, k, iterErr) ==
    LET entries == keepScanned(SubSeq(rs, 1, k))
    IN IF iterErr # NoErr
       THEN (IF Len(entries) > 0
             THEN [entries |-> entries, err |-> NoErr]
             ELSE [entries |-> <<>>, err |-> iterErr])
       ELSE [entries |-> entries, err |-> NoErr]

\* errors rows.Err() can hold: a driver error, or the context's error once
\* the context of the query is done
IterErrors == IF ctxDone(ctx) THEN {ctx.err} ELSE {"rows error"}

\* the errors a batch query of the collector is tried with
FetchQueryErrors == {"i/o timeout", "code: 516, message: Authentication failed",
                     "syntax error", CtxCanceled}

\* the deferred cancel() of withTotalTimeoutContext stops the timer
stopTimer(t) == IF t = "armed" THEN "stopped" ELSE t

CallFetchQueryLogs(bs, mr, timeout) ==
    /\ UNCHANGED restVars
    /\ comp = "fetch"
    /\ fpc = "idle"
    /\ fcfg' = [BatchSize |-> bs, MaxRows |-> mr, QueryTimeout |-> timeout]
    /\ timer' = armTimer(timeout)
    /\ EnterRetry(defaultRetryConfig)
    /\ fpc' = "retry"
    /\ UNCHANGED <<comp, ctx, deadlineAt, lateCalls>>
    /\ UNCHANGED <<qlog, rows, offset, totalProcessed, allEntries, offsets,
                   fetchErr>>

FetchRetryStep ==
    /\ UNCHANGED restVars
    /\ comp = "fetch"
    /\ RetryLoopHead
    /\ offsets' = IF pc' = "infn" /\ outcomes = <<>>
                  THEN Append(offsets, offset) ELSE offsets
    /\ UNCHANGED <<qlog, fcfg, fpc, rows, offset, totalProcessed, allEntries,
                   fetchErr>>

\* c.conn.QueryContext returns: the page of rows, or an error
FetchQueryReturn(e) ==
    /\ UNCHANGED restVars
    /\ comp = "fetch"
    /\ pc = "infn"
    /\ AfterFn(e)
    /\ rows' = IF e = NoErr THEN Page(qlog, fcfg.BatchSize, offset) ELSE rows
    /\ UNCHANGED <<comp, cfg, attempt, backoff, ctx, timer, deadlineAt, lateCalls>>
    /\ UNCHANGED <<qlog, fcfg, fpc, offset, totalProcessed, allEntries, offsets,
                   fetchErr>>

\* FetchQueryLogs after executeWithRetry has returned (lines 128-131)
FetchAfterRetry ==
    /\ UNCHANGED restVars
    /\ comp = "fetch"
    /\ fpc = "retry"
    /\ pc = "done"
    /\ IF retErr # NoErr
       THEN /\ fpc' = "returned"
            /\ fetchErr' = retErr
            /\ timer' = stopTimer(timer)
       ELSE /\ fpc' = "process"
            /\ UNCHANGED <<fetchErr, timer>>
    /\ UNCHANGED <<comp, cfg, pc, attempt, backoff, lastErr, outcomes, sleeps,
                   retErr, ctx, deadlineAt, lateCalls>>
    /\ UNCHANGED <<qlog, fcfg, rows, offset, totalProcessed, allEntries, offsets>>

maxRowsReachedMutant(total, max) == total > max
\* `totalProcessed >= cfg.MaxRows`
maxRowsReached(total, max) == total >= max

\* processBatch and the rest of the loop body of FetchQueryLogs (132-166)
FetchProcessBatch(k, iterErr) ==
    /\ UNCHANGED restVars
    /\ comp = "fetch"
    /\ fpc = "process"
    /\ k \in 0..Len(rows)
    /\ iterErr = NoErr => k = Len(rows)
    /\ LET res == processBatch(rows, k, iterErr)
           batch == res.entries
           total == totalProcessed + Len(batch)
       IN IF res.err # NoErr
          THEN /\ fpc' = "returned"
               /\ fetchErr' = res.err
               /\ timer' = stopTimer(timer)
               /\ UNCHANGED <<allEntries, totalProcessed, offset, cfg, pc,
                              attempt, backoff, lastErr, outcomes, sleeps, retErr>>
          ELSE IF Len(batch) = 0
          THEN /\ fpc' = "returned"
               /\ timer' = stopTimer(timer)
               /\ UNCHANGED <<fetchErr, allEntries, totalProcessed, offset, cfg,
                              pc, attempt, backoff, lastErr, outcomes, sleeps,
                              retErr>>
          ELSE /\ allEntries' = allEntries \o batch
               /\ totalProcessed' = total
               /\ IF maxRowsReached(total, fcfg.MaxRows)
                     \/ Len(batch) < fcfg.BatchSize
                  THEN /\ fpc' = "returned"
                       /\ timer' = stopTimer(timer)
                       /\ UNCHANGED <<fetchErr, offset, cfg, pc, attempt, backoff,
                                      lastErr, outcomes, sleeps, retErr>>
                  ELSE /\ offset' = offset + fcfg.BatchSize
                       /\ fpc' = "retry"
                       /\ EnterRetry(defaultRetryConfig)
                       /\ UNCHANGED <<fetchErr, timer>>
    /\ UNCHANGED <<comp, ctx, deadlineAt, lateCalls, qlog, fcfg, rows, offsets>>

FetchSleepDone ==
    /\ UNCHANGED restVars
    /\ comp = "fetch"
    /\ RetrySleepElapsed
    /\ UNCHANGED fetchVars

FetchSleepCancelled ==
    /\ UNCHANGED restVars
    /\ comp = "fetch"
    /\ RetrySleepCtxDone
    /\ UNCHANGED fetchVars

\* ClickHouse appends a finished query to system.query_log while the
\* collector is between two page queries: the row is the newest one, so
\* `ORDER BY event_time DESC` puts it first and moves every other row down
QueryLogGrows(ok) ==
    /\ UNCHANGED restVars
    /\ comp = "fetch"
    /\ fpc \in {"retry", "process"}
    /\ Len(qlog) < MaxLog
    /\ qlog' = <<[id |-> Len(qlog) + 1, ok |-> ok]>> \o qlog
    /\ UNCHANGED <<comp, retryVars, fcfg, fpc, rows, offset, totalProcessed,
                   allEntries, offsets, fetchErr>>

\* the rows FetchQueryLogs has returned: allEntries, or nil with an error
Delivered == IF fetchErr = NoErr THEN allEntries ELSE <<>>

InitFetch ==
    /\ comp = "fetch"
    /\ IdleRetry
    /\ qlog \in QueryLogs
    /\ IdleFetch
    /\ IdleRest

NextFetch ==
    \/ \E bs \in 1..MaxBatchSize, mr \in 0..MaxMaxRows, t \in {0, 20} :
          CallFetchQueryLogs(bs, mr, t)
    \/ FetchRetryStep
    \/ \E e \in FetchQueryErrors \cup {NoErr} : FetchQueryReturn(e)
    \/ FetchAfterRetry
    \/ \E k \in 0..MaxLog, e \in IterErrors \cup {NoErr} : FetchProcessBatch(k, e)
    \/ FetchSleepDone
    \/ FetchSleepCancelled
    \/ \E ok \in BOOLEAN : QueryLogGrows(ok)
    \/ TimerFire
    \/ ParentCancel

SpecFetch == InitFetch /\ [][NextFetch]_vars

----------------------------------------------------------------------------
(* Properties of the retry helper and of the collector                      *)

\* max_attempts in effect: cfg.maxAttempts, or the default when it is <= 0
effectiveMax == IF cfg.maxAttempts > 0 THEN cfg.maxAttempts ELSE maxRetryAttempts

AllTransient(os) == \A i \in DOMAIN os : isTransient(os[i])

\* C1: fn is never invoked more than max_attempts times (hence retried at
\* most max_attempts - 1 times); when every attempt failed with a transient
\* error and the context is not done, executeWithRetry has made exactly
\* max_attempts attempts and returns the error of the last one.
C1_TransientRetriedAtMostMax ==
    /\ Len(outcomes) <= effectiveMax
    /\ Len(sleeps) <= effectiveMax - 1
    /\ (pc = "done" /\ ~ctxDone(ctx) /\ outcomes # <<>> /\ AllTransient(outcomes))
          => /\ Len(outcomes) = effectiveMax
             /\ retErr = outcomes[Len(outcomes)]

C1_Witness ==
    /\ pc = "done" /\ ~ctxDone(ctx)
    /\ cfg.maxAttempts = 0
    /\ Len(outcomes) = maxRetryAttempts
    /\ AllTransient(outcomes)
    /\ retErr = outcomes[maxRetryAttempts]

\* C2 as stated: whenever some attempt of the batch failed with an
\* authentication error, the batch was attempted exactly once, no backoff
\* sleep was issued and that auth error is what is returned.
C2_AuthAttemptedExactlyOnce ==
    (pc = "done" /\ \E i \in DOMAIN outcomes : isAuthError(outcomes[i]))
        => /\ Len(outcomes) = 1
           /\ sleeps = <<>>
           /\ retErr = outcomes[1]

\* C2 amended: an attempt that fails with an authentication error is the
\* last attempt of its batch and no backoff sleep follows it (when it is the
\* first attempt: exactly one attempt, no sleep); the auth error is returned
\* unless the context is done, in which case the context's error is.
C2_AuthNeverRetried ==
    \A i \in DOMAIN outcomes :
        isAuthError(outcomes[i])
            => /\ i = Len(outcomes)
               /\ pc = "done"
               /\ Len(sleeps) = i - 1
               /\ retErr = IF ctxDone(ctx) THEN contextError(ctx) ELSE outcomes[i]

C2_Witness ==
    /\ pc = "done"
    /\ Len(outcomes) = 1
    /\ outcomes[1] = "code: 516, message: Authentication failed"
    /\ sleeps = <<>>
    /\ retErr = outcomes[1]

\* C3: once the query-timeout deadline has fired no attempt is started, and
\* when it fired during an attempt or a backoff sleep, the error returned by
\* FetchQueryLogs is deadline-exceeded.
C3_DeadlineCause ==
    /\ deadlineAt # "never" => lateCalls = 0
    /\ (fpc = "returned" /\ deadlineAt \in {"infn", "sleep"} /\ fetchErr # NoErr)
          => fetchErr = CtxDeadline

\* C4: FetchQueryLogs never returns more than max_rows rows.
C4_DeliveredBoundedByMaxRows ==
    fpc = "returned" => Len(Delivered) <= fcfg.MaxRows

----------------------------------------------------------------------------
(* Baseline engine: internal/baseline/baseline.go, and the baseline package *)
(* the analyze command calls (GenerateFindings, ApplySuppression)           *)

MaxAnomalies == 2        \* largest number of anomalies in a report
MaxRun == 2              \* runs told apart by their volatile values

fileVersion == 1

\* the strings fingerprints are made of, in the order digests are compared
Atoms == <<"", "sha256", "anomaly", "recommendation",
           "zero_usage_non_replicated", "zero_usage_replicated",
           "safe_to_drop", "likely_safe",
           "zero_usage_non_replicated_table", "zero_usage_replicated_table",
           "safe_to_drop_table", "likely_safe_table", "keep_table",
           "type", "description", "severity", "affected_table",
           "affected_service", "table_name", "database_name", "engine",
           "is_replicated", "true",
           "stale_table", "low_activity",
           "Table not accessed in over 30 days",
           "Table has very low activity (< 10 accesses)",
           "low", "medium", "db", "db.a", "db.b", "db.c", "db.k", "db.z",
           "db.r", "a", "b", "c", "k", "MergeTree", "ReplicatedMergeTree",
           "0", "1", "2", "3", "4", "unrelated">>

ord(s) == CHOOSE i \in DOMAIN Atoms : Atoms[i] = s

\* strconv.Itoa on the small numbers of the model
itoa(n) == Atoms[ord("0") + n]

\* sha256.Sum256 + hex.EncodeToString: a digest is named by the data it was
\* computed from (no collisions); it is never the empty string <<>>
sha256hex(data) == <<"sha256">> \o data

\* hash, baseline.go:256-259: the parts joined by 0x1F, then digested
hash(parts) == sha256hex(parts)

RECURSIVE Less(_, _)
\* the order of digests (string comparison)
Less(a, b) ==
    IF a = <<>> THEN b # <<>>
    ELSE IF b = <<>> THEN FALSE
    ELSE IF Head(a) = Head(b) THEN Less(Tail(a), Tail(b))
    ELSE ord(Head(a)) < ord(Head(b))

RECURSIVE Sorted(_)
\* Sorted, baseline.go:107-114
Sorted(set) ==
    IF set = {} THEN <<>>
    ELSE LET m == CHOOSE x \in set : \A y \in set \ {x} : Less(x, y)
         IN <<m>> \o Sorted(set \ {m})

\* AddAll, baseline.go:97-104: empty fingerprints are not inserted
AddAll(target, fps) ==
    target \cup {fps[i] : i \in {j \in DOMAIN fps : fps[j] # <<>>}}

\* CountFindings, baseline.go:117-128 (countFindings of the analyze command
\* counts the same five lists)
CountFindings(r) ==
    Len(r.Anomalies) + Len(r.ZeroUsageNonReplicated)
    + Len(r.ZeroUsageReplicated) + Len(r.SafeToDrop) + Len(r.LikelySafe)

FingerprintAnomaly(anomaly) ==
    hash(<<"anomaly", anomaly.Type, anomaly.Severity, anomaly.AffectedTable,
           anomaly.AffectedService>>)

FingerprintTableRecommendationMutant(category, rec) ==
    hash(<<"recommendation", category, rec.Name, rec.Database,
           itoa(rec.SizeMB)>>)
FingerprintTableRecommendation(category, rec) ==
    hash(<<"recommendation", category, rec.Name, rec.Database>>)

fingerprintTableName(category, tableName) ==
    hash(<<"recommendation", category, tableName>>)

Range(seq) == {seq[i] : i \in DOMAIN seq}

CollectFingerprintsMutant(r) ==
    Sorted({FingerprintAnomaly(a) : a \in Range(r.Anomalies)}
           \cup {FingerprintTableRecommendation("zero_usage_non_replicated", rec)
                   : rec \in Range(r.ZeroUsageNonReplicated)}
           \cup {FingerprintTableRecommendation("zero_usage_replicated", rec)
                   : rec \in Range(r.ZeroUsageReplicated)}
           \cup {fingerprintTableName("safe_to_drop", t) : t \in Range(r.SafeToDrop)})
\* CollectFingerprints, baseline.go:131-155
CollectFingerprints(r) ==
    Sorted({FingerprintAnomaly(a) : a \in Range(r.Anomalies)}
           \cup {FingerprintTableRecommendation("zero_usage_non_replicated", rec)
                   : rec \in Range(r.ZeroUsageNonReplicated)}
           \cup {FingerprintTableRecommendation("zero_usage_replicated", rec)
                   : rec \in Range(r.ZeroUsageReplicated)}
           \cup {fingerprintTableName("safe_to_drop", t) : t \in Range(r.SafeToDrop)}
           \cup {fingerprintTableName("likely_safe", t) : t \in Range(r.LikelySafe)})

\* filterAnomalies, filterTableRecommendations, filterTableNames
\* (baseline.go:202-254): the elements whose fingerprint is not known
filterAnomalies(found, k) ==
    SelectSeq(found, LAMBDA a : FingerprintAnomaly(a) \notin k)

filterTableRecommendations(recommendations, category, k) ==
    SelectSeq(recommendations,
              LAMBDA rec : FingerprintTableRecommendation(category, rec) \notin k)

filterTableNames(names, category, k) ==
    SelectSeq(names, LAMBDA t : fingerprintTableName(category, t) \notin k)

\* SuppressKnown, baseline.go:158-190; suppressed is incremented once for
\* every element a filter drops
SuppressKnown(r, k) ==
    IF k = {}
    THEN [report |-> r, suppressed |-> 0, remaining |-> CountFindings(r)]
    ELSE LET out == [r EXCEPT
                 !.Anomalies = filterAnomalies(@, k),
                 !.ZeroUsageNonReplicated =
                     filterTableRecommendations(@, "zero_usage_non_replicated", k),
                 !.ZeroUsageReplicated =
                     filterTableRecommendations(@, "zero_usage_replicated", k),
                 !.SafeToDrop = filterTableNames(@, "safe_to_drop", k),
                 !.LikelySafe = filterTableNames(@, "likely_safe", k)]
         IN [report |-> out,
             suppressed |-> CountFindings(r) - CountFindings(out),
             remaining |-> CountFindings(out)]

\* strings.TrimSpace on the paths tried
TrimSpace(path) ==
    CASE path = " baseline.json " -> "baseline.json"
      [] path = " " -> ""
      [] OTHER -> path

savePayloadMutant(set) ==
    [exists |-> TRUE, wellFormed |-> TRUE, version |-> fileVersion + 1,
     fingerprints |-> Sorted(set)]
\* the File value Save marshals, baseline.go:80-84
savePayload(set) ==
    [exists |-> TRUE, wellFormed |-> TRUE, version |-> fileVersion,
     fingerprints |-> Sorted(set)]

\* Save, baseline.go:67-94: [err, files]
Save(path, set, fs) ==
    LET trimmed == TrimSpace(path)
    IN IF trimmed = ""
       THEN [err |-> "baseline path is empty", files |-> fs]
       ELSE [err |-> NoErr, files |-> [fs EXCEPT ![trimmed] = savePayload(set)]]

\* Load, baseline.go:33-64: [set, err]
Load(path, fs) ==
    LET trimmed == TrimSpace(path)
    IN IF trimmed = ""
       THEN [set |-> {}, err |-> "baseline path is empty"]
       ELSE IF ~fs[trimmed].exists
       THEN [set |-> {}, err |-> NoErr]
       ELSE IF ~fs[trimmed].wellFormed
       THEN [set |-> {}, err |-> "parse baseline file"]
       ELSE IF fs[trimmed].version # 0 /\ fs[trimmed].version # fileVersion
       THEN [set |-> {}, err |-> "unsupported baseline version"]
       ELSE [set |-> {f \in Range(fs[trimmed].fingerprints) : f # <<>>},
             err |-> NoErr]

\* StableFinding of the baseline package the analyze command calls
StableFinding(type, description, severity, affectedTable, affectedService, tableName, databaseName, engine, isReplicated) ==
    [Type |-> type, Description |-> description, Severity |-> severity,
     AffectedTable |-> affectedTable, AffectedService |-> affectedService,
     TableName |-> tableName, DatabaseName |-> databaseName,
     Engine |-> engine, IsReplicated |-> isReplicated]

\* a field tagged omitempty is left out of the JSON when it is empty
omitempty(key, value) == IF value = "" THEN <<>> ELSE <<key, value>>

\* json.Marshal(sf): the keys and values written, in the order of the fields
jsonMarshal(sf) ==
    <<"type", sf.Type>>
    \o omitempty("description", sf.Description)
    \o omitempty("severity", sf.Severity)
    \o omitempty("affected_table", sf.AffectedTable)
    \o omitempty("affected_service", sf.AffectedService)
    \o omitempty("table_name", sf.TableName)
    \o omitempty("database_name", sf.DatabaseName)
    \o omitempty("engine", sf.Engine)
    \o (IF sf.IsReplicated THEN <<"is_replicated", "true">> ELSE <<>>)

\* StableFinding.Fingerprint
Fingerprint(sf) == sha256hex(jsonMarshal(sf))

\* SplitTableName: strings.SplitN(fullName, ".", 2) on the names of the model
SplitTableName(fullName) ==
    CASE fullName = "db.a" -> <<"db", "a">>
      [] fullName = "db.b" -> <<"db", "b">>
      [] fullName = "db.c" -> <<"db", "c">>
      [] fullName = "db.k" -> <<"db", "k">>
      [] OTHER -> <<"", fullName>>

anomalyFinding(a) ==
    StableFinding("anomaly", a.Description, a.Severity, a.AffectedTable,
                  a.AffectedService, "", "", "", FALSE)

tableFinding(category, tr) ==
    StableFinding(category, "", "", "", "", tr.Name, tr.Database, tr.Engine,
                  tr.IsReplicated)

stringFinding(category, name) ==
    StableFinding(category, "", "", "", "", SplitTableName(name)[2],
                  SplitTableName(name)[1], "", FALSE)

RECURSIVE insertFinding(_, _)
insertFinding(f, sorted) ==
    IF sorted = <<>> THEN <<f>>
    ELSE IF Less(f.Fingerprint, Head(sorted).Fingerprint)
    THEN <<f>> \o sorted
    ELSE <<Head(sorted)>> \o insertFinding(f, Tail(sorted))

RECURSIVE sortFindings(_)
\* sort.Slice(findings, by Fingerprint)
sortFindings(fs) ==
    IF fs = <<>> THEN <<>> ELSE insertFinding(Head(fs), sortFindings(Tail(fs)))

toFinding(sf) == [Fingerprint |-> Fingerprint(sf), Type |-> sf.Type]

\* the findings of a list of table recommendations, and of a list of names
tableFindings(category, recs) ==
    [i \in 1..Len(recs) |-> toFinding(tableFinding(category, recs[i]))]

stringFindings(category, names) ==
    [i \in 1..Len(names) |-> toFinding(stringFinding(category, names[i]))]

\* GenerateFindings
GenerateFindings(r) ==
    sortFindings(
        [i \in 1..Len(r.Anomalies) |-> toFinding(anomalyFinding(r.Anomalies[i]))]
        \o tableFindings("zero_usage_non_replicated_table", r.ZeroUsageNonReplicated)
        \o tableFindings("zero_usage_replicated_table", r.ZeroUsageReplicated)
        \o stringFindings("safe_to_drop_table", r.SafeToDrop)
        \o stringFindings("likely_safe_table", r.LikelySafe)
        \o stringFindings("keep_table", r.Keep))

\* ApplySuppression: every list, the keep list included, loses the elements
\* whose fingerprint is in the baseline; suppressedCount counts them all
ApplySuppression(r, baselineFindings) ==
    LET baselineSet == {f.Fingerprint : f \in Range(baselineFindings)}
        stays(sf) == Fingerprint(sf) \notin baselineSet
        names(category, ns) ==
            SelectSeq(ns, LAMBDA n : stays(stringFinding(category, n)))
        recs(category, trs) ==
            SelectSeq(trs, LAMBDA tr : stays(tableFinding(category, tr)))
        out == [Anomalies |->
                    SelectSeq(r.Anomalies, LAMBDA a : stays(anomalyFinding(a))),
                ZeroUsageNonReplicated |->
                    recs("zero_usage_non_replicated_table", r.ZeroUsageNonReplicated),
                ZeroUsageReplicated |->
                    recs("zero_usage_replicated_table", r.ZeroUsageReplicated),
                SafeToDrop |-> names("safe_to_drop_table", r.SafeToDrop),
                LikelySafe |-> names("likely_safe_table", r.LikelySafe),
                Keep |-> names("keep_table", r.Keep)]
    IN [report |-> out,
        suppressedCount |-> CountFindings(r) + Len(r.Keep)
                            - CountFindings(out) - Len(out.Keep)]

----------------------------------------------------------------------------
(* The reports and calls the baseline engine is tried with                  *)

\* the anomalies detectAnomalies reports, without their detection time
AnomalyKinds ==
    {[Type |-> "stale_table",
      Description |-> "Table not accessed in over 30 days",
      Severity |-> "medium", AffectedTable |-> "db.a", AffectedService |-> ""],
     [Type |-> "low_activity",
      Description |-> "Table has very low activity (< 10 accesses)",
      Severity |-> "medium", AffectedTable |-> "db.a", AffectedService |-> ""],
     [Type |-> "low_activity",
      Description |-> "Table has very low activity (< 10 accesses)",
      Severity |-> "low", AffectedTable |-> "db.a", AffectedService |-> ""]}

Anomaly(kind, now) ==
    [Type |-> kind.Type, Description |-> kind.Description,
     Severity |-> kind.Severity, AffectedTable |-> kind.AffectedTable,
     AffectedService |-> kind.AffectedService, DetectedAt |-> now]

TableRecommendation(name, engine, isReplicated, size) ==
    [Name |-> name, Database |-> "db", Engine |-> engine,
     IsReplicated |-> isReplicated, SizeMB |-> size, Rows |-> 10 * size]

\* sequences without repetition, of length at most n
InjSeqs(S, n) ==
    {s \in UNION {[1..m -> S] : m \in 0..n} :
        \A i, j \in DOMAIN s : i # j => s[i] # s[j]}

\* reports of a first run (detection time 1, sizes 1)
Reports ==
    [Anomalies : InjSeqs({Anomaly(k, 1) : k \in AnomalyKinds}, MaxAnomalies),
     ZeroUsageNonReplicated :
         InjSeqs({TableRecommendation("db.z", "MergeTree", FALSE, 1)}, 1),
     ZeroUsageReplicated :
         InjSeqs({TableRecommendation("db.r", "ReplicatedMergeTree", TRUE, 1)}, 1),
     SafeToDrop : InjSeqs({"db.a", "db.b"}, 2),
     LikelySafe : InjSeqs({"db.c"}, 1),
     Keep : InjSeqs({"db.k"}, 1)]

Reverse(seq) == [i \in 1..Len(seq) |-> seq[Len(seq) + 1 - i]]

\* the report of another run over the same findings: other detection time,
\* other sizes and row counts, the lists in the other order when rev
restamp(r, now, size, rev) ==
    LET order(seq) == IF rev THEN Reverse(seq) ELSE seq
        resize(seq) == [i \in 1..Len(seq) |->
                           [seq[i] EXCEPT !.SizeMB = size, !.Rows = 10 * size]]
    IN [Anomalies |-> order([i \in 1..Len(r.Anomalies) |->
                               [r.Anomalies[i] EXCEPT !.DetectedAt = now]]),
        ZeroUsageNonReplicated |-> order(resize(r.ZeroUsageNonReplicated)),
        ZeroUsageReplicated |-> order(resize(r.ZeroUsageReplicated)),
        SafeToDrop |-> order(r.SafeToDrop),
        LikelySafe |-> order(r.LikelySafe),
        Keep |-> order(r.Keep)]

unrelatedFingerprint == hash(<<"unrelated">>)

\* baseline sets tried against a report: nothing, one fingerprint, all but
\* one, all of them; among them a fingerprint of no finding of the report
KnownChoices(all) ==
    {{}, all} \cup {{f} : f \in all} \cup {all \ {f} : f \in all}

RemoveAt(seq, i) == SubSeq(seq, 1, i - 1) \o SubSeq(seq, i + 1, Len(seq))

FindingChoices(fs) ==
    {<<>>, fs} \cup {<<fs[i]>> : i \in DOMAIN fs}
    \cup {RemoveAt(fs, i) : i \in DOMAIN fs}

SavePaths == {"baseline.json", " baseline.json ", "old.json", ""}
LoadPaths == {"baseline.json", " baseline.json ", "old.json", "bad.json",
              "garbage.json", " "}

notBaseline == <<comp, retryVars, fetchVars, modelVars, analyzerVars, scorerVars,
                 cliVars, resolverVars, laterVars>>

CallCollectFingerprints ==
    /\ comp = "baseline"
    /\ bpc \in {"start", "NextRun"}
    /\ fingerprints' = CollectFingerprints(report)
    /\ bpc' = "CollectFingerprints"
    /\ UNCHANGED <<report, findings, previous, before, known, suppressed,
                   remaining, files, saved, loaded>>
    /\ UNCHANGED notBaseline

CallGenerateFindings ==
    /\ comp = "baseline"
    /\ bpc \in {"start", "NextRun"}
    /\ findings' = GenerateFindings(report)
    /\ bpc' = "GenerateFindings"
    /\ UNCHANGED <<report, fingerprints, previous, before, known, suppressed,
                   remaining, files, saved, loaded>>
    /\ UNCHANGED notBaseline

\* the next run of the analysis finds the same findings again
NextRun(now, size, rev) ==
    /\ comp = "baseline"
    /\ bpc \in {"CollectFingerprints", "GenerateFindings"}
    /\ previous.of = "none"
    /\ previous' = [of |-> bpc, fingerprints |-> fingerprints,
                    findings |-> findings]
    /\ before' = report
    /\ report' = restamp(report, now, size, rev)
    /\ bpc' = "NextRun"
    /\ UNCHANGED <<fingerprints, findings, known, suppressed, remaining, files,
                   saved, loaded>>
    /\ UNCHANGED notBaseline

CallSuppressKnown(k) ==
    /\ comp = "baseline"
    /\ previous.of = "none"
    /\ \/ bpc = "start"
          /\ k \in KnownChoices(AddAll({unrelatedFingerprint},
                                       CollectFingerprints(report)))
       \/ bpc = "CollectFingerprints" /\ k = AddAll({}, fingerprints)
       \/ bpc = "Load" /\ loaded.err = NoErr /\ k = loaded.set
    /\ LET res == SuppressKnown(report, k)
       IN /\ report' = res.report
          /\ suppressed' = res.suppressed
          /\ remaining' = res.remaining
    /\ before' = report
    /\ known' = k
    /\ bpc' = "SuppressKnown"
    /\ UNCHANGED <<fingerprints, findings, previous, files, saved, loaded>>
    /\ UNCHANGED notBaseline

\* applyBaseline of the analyze command: ApplySuppression, then countFindings
CallApplySuppression(baselineFindings) ==
    /\ comp = "baseline"
    /\ previous.of = "none"
    /\ \/ bpc = "start"
          /\ baselineFindings \in FindingChoices(GenerateFindings(report))
       \/ bpc = "GenerateFindings" /\ baselineFindings = findings
    /\ LET res == ApplySuppression(report, baselineFindings)
       IN /\ report' = res.report
          /\ suppressed' = res.suppressedCount
          /\ remaining' = CountFindings(res.report)
    /\ before' = report
    /\ known' = {f.Fingerprint : f \in Range(baselineFindings)}
    /\ bpc' = "ApplySuppression"
    /\ UNCHANGED <<fingerprints, findings, previous, files, saved, loaded>>
    /\ UNCHANGED notBaseline

CallSave(path) ==
    /\ comp = "baseline"
    /\ previous.of = "none"
    /\ bpc = "CollectFingerprints"
    /\ LET set == AddAll({}, fingerprints)
           res == Save(path, set, files)
       IN /\ files' = res.files
          /\ saved' = IF res.err = NoErr THEN [path |-> path, set |-> set]
                      ELSE saved
    /\ bpc' = "Save"
    /\ UNCHANGED <<report, fingerprints, findings, previous, before, known,
                   suppressed, remaining, loaded>>
    /\ UNCHANGED notBaseline

CallLoad(path) ==
    /\ comp = "baseline"
    /\ bpc \in {"start", "Save"}
    /\ loaded' = [path |-> path, set |-> Load(path, files).set,
                  err |-> Load(path, files).err]
    /\ bpc' = "Load"
    /\ UNCHANGED <<report, fingerprints, findings, previous, before, known,
                   suppressed, remaining, files, saved>>
    /\ UNCHANGED notBaseline

\* baseline files found on disk at the start
InitialFiles ==
    [p \in BaselineFiles |->
        CASE p = "old.json" ->
                 [exists |-> TRUE, wellFormed |-> TRUE, version |-> 0,
                  fingerprints |-> <<<<>>, unrelatedFingerprint,
                                     fingerprintTableName("safe_to_drop", "db.a")>>]
          [] p = "bad.json" ->
                 [exists |-> TRUE, wellFormed |-> TRUE, version |-> 999,
                  fingerprints |-> <<>>]
          [] p = "garbage.json" ->
                 [exists |-> TRUE, wellFormed |-> FALSE, version |-> 0,
                  fingerprints |-> <<>>]
          [] OTHER -> Missing]

InitBaseline ==
    /\ comp = "baseline"
    /\ IdleRetry
    /\ qlog = <<>>
    /\ IdleFetch
    /\ IdleCli
    /\ IdleResolver
    /\ IdleLater
    /\ IdleAnalyzer
    /\ IdleScorer
    /\ report \in Reports
    /\ bpc = "start"
    /\ fingerprints = <<>> /\ findings = <<>>
    /\ previous = [of |-> "none", fingerprints |-> <<>>, findings |-> <<>>]
    /\ before = EmptyReport /\ known = {} /\ suppressed = 0 /\ remaining = 0
    /\ files = InitialFiles
    /\ saved = [path |-> "", set |-> {}]
    /\ loaded = [path |-> "", set |-> {}, err |-> NoErr]

NextBaseline ==
    \/ CallCollectFingerprints
    \/ CallGenerateFindings
    \/ \E now \in 1..MaxRun, size \in 1..MaxRun, rev \in BOOLEAN :
          NextRun(now, size, rev)
    \/ \E k \in KnownChoices(AddAll({unrelatedFingerprint},
                                    CollectFingerprints(report)))
                \cup {AddAll({}, fingerprints), loaded.set} :
          CallSuppressKnown(k)
    \/ \E baselineFindings \in FindingChoices(GenerateFindings(report)) :
          CallApplySuppression(baselineFindings)
    \/ \E path \in SavePaths : CallSave(path)
    \/ \E path \in LoadPaths : CallLoad(path)

SpecBaseline == InitBaseline /\ [][NextBaseline]_vars

----------------------------------------------------------------------------
(* Properties of the baseline engine                                        *)

\* C5: suppressing a report with the fingerprints collected from that same
\* report leaves no finding: remaining is 0 and the anomalies, both
\* zero-usage lists, safe-to-drop and likely-safe are all empty.
C5_SuppressionLaw ==
    (bpc = "SuppressKnown" /\ known = AddAll({}, CollectFingerprints(before)))
        => /\ remaining = 0
           /\ report.Anomalies = <<>>
           /\ report.ZeroUsageNonReplicated = <<>>
           /\ report.ZeroUsageReplicated = <<>>
           /\ report.SafeToDrop = <<>>
           /\ report.LikelySafe = <<>>

C5_Witness ==
    /\ bpc = "SuppressKnown"
    /\ known = AddAll({}, CollectFingerprints(before))
    /\ Len(before.Anomalies) = 2
    /\ CountFindings(before) >= 6
    /\ suppressed = CountFindings(before)
    /\ remaining = 0
    /\ CountFindings(report) = 0

\* C6: a suppression removes exactly the findings whose fingerprint is in
\* known and keeps every other finding, suppressed + remaining is the number
\* of findings before the call, and the keep list is unchanged.  Stated for
\* both suppression functions, each with its own fingerprints.
C6_SuppressRemovesExactlyKnown ==
    /\ bpc = "SuppressKnown" =>
          /\ report.Anomalies =
                SelectSeq(before.Anomalies,
                          LAMBDA a : FingerprintAnomaly(a) \notin known)
          /\ report.ZeroUsageNonReplicated =
                SelectSeq(before.ZeroUsageNonReplicated,
                          LAMBDA rec : FingerprintTableRecommendation(
                                     "zero_usage_non_replicated", rec) \notin known)
          /\ report.ZeroUsageReplicated =
                SelectSeq(before.ZeroUsageReplicated,
                          LAMBDA rec : FingerprintTableRecommendation(
                                     "zero_usage_replicated", rec) \notin known)
          /\ report.SafeToDrop =
                SelectSeq(before.SafeToDrop,
                          LAMBDA t : fingerprintTableName("safe_to_drop", t)
                                     \notin known)
          /\ report.LikelySafe =
                SelectSeq(before.LikelySafe,
                          LAMBDA t : fingerprintTableName("likely_safe", t)
                                     \notin known)
    /\ bpc = "ApplySuppression" =>
          /\ report.Anomalies =
                SelectSeq(before.Anomalies,
                          LAMBDA a : Fingerprint(anomalyFinding(a)) \notin known)
          /\ report.ZeroUsageNonReplicated =
                SelectSeq(before.ZeroUsageNonReplicated,
                          LAMBDA tr : Fingerprint(tableFinding(
                              "zero_usage_non_replicated_table", tr)) \notin known)
          /\ report.ZeroUsageReplicated =
                SelectSeq(before.ZeroUsageReplicated,
                          LAMBDA tr : Fingerprint(tableFinding(
                              "zero_usage_replicated_table", tr)) \notin known)
          /\ report.SafeToDrop =
                SelectSeq(before.SafeToDrop,
                          LAMBDA n : Fingerprint(stringFinding(
                              "safe_to_drop_table", n)) \notin known)
          /\ report.LikelySafe =
                SelectSeq(before.LikelySafe,
                          LAMBDA n : Fingerprint(stringFinding(
                              "likely_safe_table", n)) \notin known)
    /\ bpc \in {"SuppressKnown", "ApplySuppression"} =>
          /\ suppressed + remaining = CountFindings(before)
          /\ report.Keep = before.Keep

\* the fingerprints of a baseline file are in strictly ascending order
Ascending(fps) == \A i \in 1..(Len(fps) - 1) : Less(fps[i], fps[i + 1])

\* C7: after a set has been saved to a path, loading that path yields
\* exactly that set, and the file carries version 1 with the fingerprints of
\* the set in sorted order.
C7_SaveLoadRoundTrip ==
    (bpc = "Load" /\ saved.path # ""
     /\ TrimSpace(loaded.path) = TrimSpace(saved.path))
        => /\ loaded.err = NoErr
           /\ loaded.set = saved.set
           /\ files[TrimSpace(saved.path)].version = 1
           /\ Ascending(files[TrimSpace(saved.path)].fingerprints)
           /\ Range(files[TrimSpace(saved.path)].fingerprints) = saved.set

C7_Witness ==
    /\ bpc = "Load"
    /\ saved.path = " baseline.json "
    /\ loaded.path = "baseline.json"
    /\ Cardinality(saved.set) >= 3
    /\ loaded.set = saved.set
    /\ Len(files["baseline.json"].fingerprints) = Cardinality(saved.set)

\* C8: a report that differs from the report of the run before only in
\* volatile fields (detection time, sizes, row counts) and in the order of
\* its findings yields the same sorted fingerprints (CollectFingerprints),
\* and the same sorted findings (GenerateFindings).
C8_FingerprintIdempotence ==
    /\ (bpc = "CollectFingerprints" /\ previous.of = "CollectFingerprints")
          => fingerprints = previous.fingerprints
    /\ (bpc = "GenerateFindings" /\ previous.of = "GenerateFindings")
          => findings = previous.findings

C8_Witness ==
    /\ bpc = "CollectFingerprints" /\ previous.of = "CollectFingerprints"
    /\ Len(report.Anomalies) = 2
    /\ report.Anomalies[1].DetectedAt # before.Anomalies[1].DetectedAt
    /\ report.Anomalies[1].Type # before.Anomalies[1].Type
    /\ Len(report.SafeToDrop) = 2
    /\ report.SafeToDrop = Reverse(before.SafeToDrop)
    /\ Len(report.ZeroUsageNonReplicated) = 1
    /\ report.ZeroUsageNonReplicated[1].SizeMB
          # before.ZeroUsageNonReplicated[1].SizeMB
    /\ fingerprints = previous.fingerprints
    /\ Len(fingerprints) = 5

----------------------------------------------------------------------------
(* Recommender: internal/scorer.  A table name is the sequence of its       *)
(* characters, so that ToLower and HasPrefix work on it as in the code.     *)

MaxTables == 1           \* largest number of tables handed to the recommender

Upper ==
    <<"A", "B", "C", "D", "E", "F", "G", "H", "I", "J", "K", "L", "M", "N",
      "O", "P", "Q", "R", "S", "T", "U", "V", "W", "X", "Y", "Z">>
Lower ==
    <<"a", "b", "c", "d", "e", "f", "g", "h", "i", "j", "k", "l", "m", "n",
      "o", "p", "q", "r", "s", "t", "u", "v", "w", "x", "y", "z">>

\* strings.ToLower
ToLower(s) ==
    [i \in 1..Len(s) |->
        IF \E j \in 1..26 : Upper[j] = s[i]
        THEN Lower[CHOOSE j \in 1..26 : Upper[j] = s[i]]
        ELSE s[i]]

\* strings.ToUpper
ToUpper(s) ==
    [i \in 1..Len(s) |->
        IF \E j \in 1..26 : Lower[j] = s[i]
        THEN Upper[CHOOSE j \in 1..26 : Lower[j] = s[i]]
        ELSE s[i]]

\* strings.HasPrefix
HasPrefix(s, prefix) ==
    Len(s) >= Len(prefix) /\ SubSeq(s, 1, Len(prefix)) = prefix

systemPrefix ==
    <<"s", "y", "s", "t", "e", "m", ".">>
informationSchemaPrefix ==
    <<"i", "n", "f", "o", "r", "m", "a", "t", "i", "o", "n", "_", "s", "c",
    "h", "e", "m", "a", ".">>

isSystemTableMutant(tableName) ==
    HasPrefix(tableName, systemPrefix)
    \/ HasPrefix(tableName, informationSchemaPrefix)
\* isSystemTable, recommendations.go:91-96
isSystemTable(tableName) ==
    LET lower == ToLower(tableName)
    IN HasPrefix(lower, systemPrefix)
       \/ HasPrefix(lower, informationSchemaPrefix)

\* time is counted in half hours
Hour == 2
Day == 24 * Hour
\* time.Now() of the run
Now == 200 * Day
\* time.Time{}
ZeroTime == 0

\* now.Sub(t).Hours() / 24, in whole days
daysSince(t) == (Now - t) \div Day

\* isSafeToRecommend, recommendations.go:66-88
isSafeToRecommend(tableName, table) ==
    IF isSystemTable(tableName) THEN FALSE
    ELSE IF table.Writes > 0 /\ daysSince(table.LastAccess) < 7 THEN FALSE
    ELSE IF table.IsMV THEN FALSE
    ELSE TRUE

\* countServicesUsingTable, simple_scorer.go:69-80
countServicesUsingTable(tableName, svcs) ==
    Cardinality({s \in DOMAIN svcs :
                   \E i \in DOMAIN svcs[s].TablesUsed :
                       svcs[s].TablesUsed[i] = tableName})

ScoreMutant(table, svcs) ==
    LET daysSinceAccess == daysSince(table.LastAccess)
        totalQueries == table.Reads + table.Writes
        uniqueServices == countServicesUsingTable(table.FullName, svcs)
    IN (IF daysSinceAccess < 7 THEN 40
        ELSE IF daysSinceAccess < 30 THEN 10
        ELSE IF daysSinceAccess < 90 THEN 30 ELSE 0)
       + (IF totalQueries > 1000 THEN 30
          ELSE IF totalQueries > 100 THEN 20
          ELSE IF totalQueries > 10 THEN 10 ELSE 0)
       + (IF uniqueServices > 5 THEN 20
          ELSE IF uniqueServices > 2 THEN 15
          ELSE IF uniqueServices > 0 THEN 5 ELSE 0)
       + (IF table.Writes > 0 THEN 10 ELSE 0)
\* SimpleScorer.Score, simple_scorer.go:13-55, in hundredths
Score(table, svcs) ==
    LET daysSinceAccess == daysSince(table.LastAccess)
        totalQueries == table.Reads + table.Writes
        uniqueServices == countServicesUsingTable(table.FullName, svcs)
    IN (IF daysSinceAccess < 7 THEN 40
        ELSE IF daysSinceAccess < 30 THEN 30
        ELSE IF daysSinceAccess < 90 THEN 10 ELSE 0)
       + (IF totalQueries > 1000 THEN 30
          ELSE IF totalQueries > 100 THEN 20
          ELSE IF totalQueries > 10 THEN 10 ELSE 0)
       + (IF uniqueServices > 5 THEN 20
          ELSE IF uniqueServices > 2 THEN 15
          ELSE IF uniqueServices > 0 THEN 5 ELSE 0)
       + (IF table.Writes > 0 THEN 10 ELSE 0)

\* SimpleScorer.Categorize, simple_scorer.go:58-66
Categorize(score) ==
    IF score >= 70 THEN "active"
    ELSE IF score >= 30 THEN "suspect"
    ELSE "unused"

RECURSIVE recommend(_, _, _, _)
\* the loop of GenerateRecommendations (recommendations.go:27-51) over the
\* tables in the order `names` the map iteration yields them
recommend(names, tbls, svcs, out) ==
    IF names = <<>> THEN [recs |-> out, tables |-> tbls]
    ELSE LET tableName == Head(names)
             table == tbls[tableName]
             score == Score(table, svcs)
             category == Categorize(score)
             scored == [tbls EXCEPT ![tableName].Score = score,
                                    ![tableName].Category = category]
         IN IF ~isSafeToRecommend(tableName, table)
            THEN recommend(Tail(names), tbls, svcs,
                           [out EXCEPT !.Keep = Append(@, tableName)])
            ELSE recommend(Tail(names), scored, svcs,
                     CASE category = "active" ->
                              [out EXCEPT !.Keep = Append(@, tableName)]
                       [] category = "suspect" ->
                              [out EXCEPT !.LikelySafe = Append(@, tableName)]
                       [] OTHER ->
                              [out EXCEPT !.SafeToDrop = Append(@, tableName)])

\* GenerateRecommendations, recommendations.go:13-63; the zero-usage lists
\* of the result are left nil
GenerateRecommendations(names, tbls, svcs) ==
    recommend(names, tbls, svcs, EmptyRecs)

\* models.Table
Table(fullName, reads, writes, lastAccess, isMV) ==
    [FullName |-> fullName, Reads |-> reads, Writes |-> writes,
     FirstSeen |-> lastAccess, LastAccess |-> lastAccess, Sparkline |-> <<>>,
     Engine |-> "", IsReplicated |-> FALSE, IsMV |-> isMV,
     TotalBytes |-> 0, ZeroUsage |-> FALSE, Score |-> 0, Category |-> ""]

\* the table names the recommender is tried with
nameSystem ==
    <<"s", "y", "s", "t", "e", "m", ".", "t">>
nameSystemUpper ==
    <<"S", "Y", "S", "T", "E", "M", ".", "t">>
nameInformationSchema ==
    <<"i", "n", "f", "o", "r", "m", "a", "t", "i", "o", "n", "_", "s", "c",
    "h", "e", "m", "a", ".", "t">>
nameInformationSchemaMixed ==
    <<"I", "n", "f", "o", "r", "m", "a", "t", "i", "o", "n", "_", "S", "c",
    "h", "e", "m", "a", ".", "t">>
nameSystems ==
    <<"s", "y", "s", "t", "e", "m", "s", ".", "t">>
nameDb ==
    <<"d", "b", ".", "t">>
nameDb2 ==
    <<"d", "b", ".", "u">>

ScorerNames ==
    {nameSystem, nameSystemUpper, nameInformationSchema,
     nameInformationSchemaMixed, nameSystems, nameDb, nameDb2}

\* the tables tried under name n
ScorerTables(n) ==
    {Table(n, reads, writes, Now - days * Day, isMV) :
        reads \in {0, 2000}, writes \in {0, 10}, days \in {2, 7, 120},
        isMV \in BOOLEAN}

\* maps of at most MaxTables tables
TableMaps ==
    {m \in UNION {[ns -> UNION {ScorerTables(n) : n \in ns}] :
                    ns \in {x \in SUBSET ScorerNames : Cardinality(x) <= MaxTables}} :
        \A n \in DOMAIN m : m[n].FullName = n}

\* k services that all use every table of m
ServiceMap(k, m) ==
    [s \in 1..k |-> [TablesUsed |-> CHOOSE seq \in [1..Cardinality(DOMAIN m) -> DOMAIN m] :
                                        \A i, j \in DOMAIN seq : i # j => seq[i] # seq[j]]]

\* the orders in which a map iteration can yield the keys of m
KeyOrders(m) ==
    {seq \in [1..Cardinality(DOMAIN m) -> DOMAIN m] :
        \A i, j \in DOMAIN seq : i # j => seq[i] # seq[j]}

notScorer == <<comp, retryVars, fetchVars, baseVars, analyzerVars, cliVars,
               resolverVars, laterVars>>

CallGenerateRecommendations(names) ==
    /\ comp = "scorer"
    /\ spc = "start"
    /\ names \in KeyOrders(tables)
    /\ LET res == GenerateRecommendations(names, tables, services)
       IN /\ cleanupRecs' = res.recs
          /\ tables' = res.tables
    /\ spc' = "done"
    /\ UNCHANGED <<services, edges, anomalies, pastRecs>>
    /\ UNCHANGED notScorer

InitScorer ==
    /\ comp = "scorer"
    /\ IdleRetry
    /\ qlog = <<>>
    /\ IdleFetch
    /\ IdleCli
    /\ IdleResolver
    /\ IdleLater
    /\ IdleBaseline
    /\ logEntries = <<>> /\ catalog = <<>>
    /\ acfg = [DetectUnusedTables |-> FALSE, ExcludeTables |-> <<>>,
              ExcludeDatabases |-> <<>>, ResolveK8s |-> FALSE,
              AnomalyDetection |-> FALSE]
    /\ apc = "idle"
    /\ tables \in TableMaps
    /\ services \in {ServiceMap(k, tables) : k \in {0, 3, 6}}
    /\ edges = EmptyMap /\ anomalies = <<>>
    /\ cleanupRecs = EmptyRecs
    /\ spc = "start"
    /\ pastRecs = <<>>

NextScorer ==
    \E names \in KeyOrders(tables) : CallGenerateRecommendations(names)

SpecScorer == InitScorer /\ [][NextScorer]_vars

\* the name starts, ignoring case, with "system." or "information_schema."
SystemIdentifier(name) ==
    \/ Len(name) >= 7 /\ ToLower(SubSeq(name, 1, 7)) = systemPrefix
    \/ Len(name) >= 19 /\ ToLower(SubSeq(name, 1, 19)) = informationSchemaPrefix

\* C9: no table whose identifier starts, ignoring case, with "system." or
\* "information_schema." is in safe-to-drop, likely-safe or either
\* zero-usage list of the recommendations.
C9_SystemTablesNeverRecommended ==
    spc = "done" =>
        /\ \A i \in DOMAIN cleanupRecs.SafeToDrop :
              ~SystemIdentifier(cleanupRecs.SafeToDrop[i])
        /\ \A i \in DOMAIN cleanupRecs.LikelySafe :
              ~SystemIdentifier(cleanupRecs.LikelySafe[i])
        /\ \A i \in DOMAIN cleanupRecs.ZeroUsageNonReplicated :
              ~SystemIdentifier(cleanupRecs.ZeroUsageNonReplicated[i].Name)
        /\ \A i \in DOMAIN cleanupRecs.ZeroUsageReplicated :
              ~SystemIdentifier(cleanupRecs.ZeroUsageReplicated[i].Name)

C9_Witness ==
    /\ spc = "done"
    /\ nameInformationSchemaMixed \in DOMAIN tables
    /\ tables[nameInformationSchemaMixed].Reads = 0
    /\ tables[nameInformationSchemaMixed].Writes = 0
    /\ daysSince(tables[nameInformationSchemaMixed].LastAccess) = 120
    /\ ~tables[nameInformationSchemaMixed].IsMV
    /\ cleanupRecs.Keep = <<nameInformationSchemaMixed>>
    /\ cleanupRecs.SafeToDrop = <<>>


----------------------------------------------------------------------------
(* Analyzer: the table model (table_analyzer.go), the inventory merge       *)
(* (analyzer.go) and the exclusion patterns of the config                   *)

MaxEntries == 2          \* largest number of query-log entries analysed

RECURSIVE trimLeft(_)
trimLeft(s) == IF s # <<>> /\ Head(s) = " " THEN trimLeft(Tail(s)) ELSE s

RECURSIVE trimRight(_)
trimRight(s) ==
    IF s # <<>> /\ s[Len(s)] = " " THEN trimRight(SubSeq(s, 1, Len(s) - 1))
    ELSE s

\* strings.TrimSpace on a sequence of characters
trimSpace(s) == trimRight(trimLeft(s))

\* normalizePattern
normalizePattern(value) == ToLower(trimSpace(value))

\* position of the first "." of s, or 0
firstDot(s) ==
    IF \E i \in DOMAIN s : s[i] = "."
    THEN CHOOSE i \in DOMAIN s : s[i] = "." /\ \A j \in 1..(i - 1) : s[j] # "."
    ELSE 0

\* splitTableName of the config: strings.SplitN(fullName, ".", 2), trimmed
splitTableName(fullName) ==
    IF firstDot(fullName) = 0
    THEN [database |-> <<>>, table |-> trimSpace(fullName)]
    ELSE [database |-> trimSpace(SubSeq(fullName, 1, firstDot(fullName) - 1)),
          table |-> trimSpace(SubSeq(fullName, firstDot(fullName) + 1,
                                     Len(fullName)))]

RECURSIVE pathMatch(_, _)
\* path.Match for patterns made of literals, "*" and "?"
pathMatch(pattern, value) ==
    IF pattern = <<>> THEN value = <<>>
    ELSE IF Head(pattern) = "*"
    THEN \/ pathMatch(Tail(pattern), value)
         \/ value # <<>> /\ Head(value) # "/" /\ pathMatch(pattern, Tail(value))
    ELSE IF value = <<>> THEN FALSE
    ELSE IF Head(pattern) = "?"
    THEN Head(value) # "/" /\ pathMatch(Tail(pattern), Tail(value))
    ELSE Head(pattern) = Head(value) /\ pathMatch(Tail(pattern), Tail(value))

\* patternMatches
patternMatches(pattern, value) ==
    /\ normalizePattern(pattern) # <<>>
    /\ normalizePattern(value) # <<>>
    /\ pathMatch(normalizePattern(pattern), normalizePattern(value))

\* Config.IsDatabaseExcluded
IsDatabaseExcluded(c, database) ==
    /\ c.ExcludeDatabases # <<>>
    /\ normalizePattern(database) # <<>>
    /\ \E i \in DOMAIN c.ExcludeDatabases :
          patternMatches(c.ExcludeDatabases[i], normalizePattern(database))

\* Config.IsTableExcluded
IsTableExcluded(c, fullName) ==
    LET full == normalizePattern(fullName)
        split == splitTableName(full)
    IN IF full = <<>> THEN FALSE
       ELSE IF split.database # <<>> /\ IsDatabaseExcluded(c, split.database)
       THEN TRUE
       ELSE \E i \in DOMAIN c.ExcludeTables :
                \/ patternMatches(c.ExcludeTables[i], full)
                \/ split.table # <<>>
                   /\ patternMatches(c.ExcludeTables[i], split.table)

kindSelect == <<"S", "E", "L", "E", "C", "T">>
\* the kinds isWriteQuery compares with
writeKinds ==
    {<<"I", "N", "S", "E", "R", "T">>,
     <<"C", "R", "E", "A", "T", "E">>,
     <<"D", "R", "O", "P">>,
     <<"A", "L", "T", "E", "R">>,
     <<"U", "P", "D", "A", "T", "E">>,
     <<"D", "E", "L", "E", "T", "E">>}
\* the prefixes isWriteQuery accepts
writePrefixes ==
    {<<"I", "N", "S", "E", "R", "T">>,
     <<"C", "R", "E", "A", "T", "E">>}

\* isReadQuery, table_analyzer.go:134-137
isReadQuery(kind) ==
    ToUpper(kind) = kindSelect \/ HasPrefix(ToUpper(kind), kindSelect)

\* isWriteQuery, table_analyzer.go:140-145
isWriteQuery(kind) ==
    \/ ToUpper(kind) \in writeKinds
    \/ \E p \in writePrefixes : HasPrefix(ToUpper(kind), p)

\* number of "." in s
dots(s) == Cardinality({i \in DOMAIN s : s[i] = "."})

\* the table buildTableModel creates for a name it has not seen
\* (table_analyzer.go:26-44): strings.Split(tableName, ".") gives two
\* parts exactly when the name has one "."
newTable(tableName, eventTime) ==
    [Name |-> IF dots(tableName) = 1
              THEN SubSeq(tableName, firstDot(tableName) + 1, Len(tableName))
              ELSE tableName,
     Database |-> IF dots(tableName) = 1
                  THEN SubSeq(tableName, 1, firstDot(tableName) - 1)
                  ELSE <<>>,
     FullName |-> tableName, Reads |-> 0, Writes |-> 0,
     FirstSeen |-> eventTime, LastAccess |-> ZeroTime, Sparkline |-> <<>>,
     Engine |-> "", IsReplicated |-> FALSE, IsMV |-> FALSE,
     MVDependency |-> <<>>, TotalBytes |-> 0, TotalRows |-> 0,
     CreateTime |-> ZeroTime, ZeroUsage |-> FALSE, Score |-> 0,
     Category |-> ""]

tableReadsMutant(table, entry) ==
    IF isReadQuery(entry.QueryKind) THEN table.Reads + entry.ReadRows
    ELSE table.Reads + entry.WrittenRows
\* table.Reads after the entry (table_analyzer.go:48-49)
tableReads(table, entry) ==
    IF isReadQuery(entry.QueryKind) THEN table.Reads + entry.ReadRows
    ELSE table.Reads

\* table.Writes after the entry (table_analyzer.go:50-52)
tableWrites(table, entry) ==
    IF ~isReadQuery(entry.QueryKind) /\ isWriteQuery(entry.QueryKind)
    THEN table.Writes + entry.WrittenRows
    ELSE table.Writes

\* the body of the inner loop of buildTableModel for one table name
touchTable(tbls, c, entry, tableName) ==
    IF tableName = <<>> \/ IsTableExcluded(c, tableName) THEN tbls
    ELSE LET table == IF tableName \in DOMAIN tbls THEN tbls[tableName]
                      ELSE newTable(tableName, entry.EventTime)
             updated == [table EXCEPT
                 !.Reads = tableReads(table, entry),
                 !.Writes = tableWrites(table, entry),
                 !.LastAccess = IF entry.EventTime > table.LastAccess
                                THEN entry.EventTime ELSE @,
                 !.FirstSeen = IF entry.EventTime < table.FirstSeen
                               THEN entry.EventTime ELSE @]
         IN [n \in DOMAIN tbls \cup {tableName} |->
                IF n = tableName THEN updated ELSE tbls[n]]

RECURSIVE touchTables(_, _, _, _)
touchTables(tbls, c, entry, names) ==
    IF names = <<>> THEN tbls
    ELSE touchTables(touchTable(tbls, c, entry, Head(names)), c, entry,
                     Tail(names))

RECURSIVE buildTableModel(_, _, _)
\* buildTableModel, table_analyzer.go:12-71
buildTableModel(tbls, c, es) ==
    IF es = <<>> THEN tbls
    ELSE buildTableModel(touchTables(tbls, c, Head(es), Head(es).Tables), c,
                         Tail(es))

\* time.Truncate(time.Hour)
Truncate(t) == t - (t % Hour)

\* buckets[{table, hour}] of generateSparklines: one count for every
\* occurrence of the name in the Tables of an entry of that hour
RECURSIVE bucket(_, _, _)
bucket(es, tableName, hour) ==
    IF es = <<>> THEN 0
    ELSE bucket(Tail(es), tableName, hour)
         + (IF Truncate(Head(es).EventTime) = hour
            THEN Cardinality({j \in DOMAIN Head(es).Tables :
                                 Head(es).Tables[j] = tableName})
            ELSE 0)

\* the hours for which the table has a bucket
bucketHours(es, tableName) ==
    {Truncate(es[i].EventTime) :
        i \in {k \in DOMAIN es : \E j \in DOMAIN es[k].Tables :
                  es[k].Tables[j] = tableName /\ tableName # <<>>}}

pointsMutant(es, tableName) ==
    LET hours == bucketHours(es, tableName)
        order == CHOOSE f \in [1..Cardinality(hours) -> hours] :
                     \A i, j \in 1..Cardinality(hours) : i < j => f[i] > f[j]
    IN [i \in 1..Cardinality(hours) |->
           [Timestamp |-> order[i], Value |-> bucket(es, tableName, order[i])]]
\* the points of one table, sorted by timestamp
points(es, tableName) ==
    LET hours == bucketHours(es, tableName)
        order == CHOOSE f \in [1..Cardinality(hours) -> hours] :
                     \A i, j \in 1..Cardinality(hours) : i < j => f[i] < f[j]
    IN [i \in 1..Cardinality(hours) |->
           [Timestamp |-> order[i], Value |-> bucket(es, tableName, order[i])]]

\* generateSparklines, table_analyzer.go:74-131
generateSparklines(tbls, es) ==
    [n \in DOMAIN tbls |-> [tbls[n] EXCEPT !.Sparkline = points(es, n)]]

\* the databases the inventory query leaves out (its WHERE clause)
inventoryHidden ==
    {<<"s", "y", "s", "t", "e", "m">>,
     <<"i", "n", "f", "o", "r", "m", "a", "t", "i", "o", "n", "_", "s", "c", "h", "e", "m", "a">>,
     <<"I", "N", "F", "O", "R", "M", "A", "T", "I", "O", "N", "_", "S", "C", "H", "E", "M", "A">>}

\* strings.Contains(engine, "Replicated") on the engines of the model
containsReplicated(engine) ==
    engine \in {"ReplicatedMergeTree", "ReplicatedReplacingMergeTree"}

\* strings.HasPrefix(engine, "Materialized") on the engines of the model
hasPrefixMaterialized(engine) == engine \in {"MaterializedView"}

RECURSIVE dependencies(_, _)
\* the dependency list built from the two split columns
dependencies(databases, tableNames) ==
    IF databases = <<>> \/ tableNames = <<>> THEN <<>>
    ELSE (IF Head(databases) # <<>> /\ Head(tableNames) # <<>>
          THEN <<Head(databases) \o <<".">> \o Head(tableNames)>>
          ELSE <<>>)
         \o dependencies(Tail(databases), Tail(tableNames))

\* the table FetchTableMetadata builds from one row of system.tables
metaTable(row) ==
    [Name |-> row.name, Database |-> row.database,
     FullName |-> row.database \o <<".">> \o row.name,
     Reads |-> 0, Writes |-> 0, FirstSeen |-> ZeroTime,
     LastAccess |-> ZeroTime, Sparkline |-> <<>>,
     Engine |-> row.engine, IsReplicated |-> containsReplicated(row.engine),
     IsMV |-> hasPrefixMaterialized(row.engine),
     MVDependency |-> dependencies(row.dep_databases, row.dep_tables),
     TotalBytes |-> row.total_bytes, TotalRows |-> row.total_rows,
     CreateTime |-> row.create_time, ZeroUsage |-> FALSE, Score |-> 0,
     Category |-> ""]

\* FetchTableMetadata: the rows of system.tables outside the hidden
\* databases, without the excluded tables, keyed by full name
FetchTableMetadata(rows_, c) ==
    LET kept == {i \in DOMAIN rows_ :
                    /\ rows_[i].database \notin inventoryHidden
                    /\ ~IsTableExcluded(c, rows_[i].database \o <<".">>
                                              \o rows_[i].name)}
    IN [n \in {rows_[i].database \o <<".">> \o rows_[i].name : i \in kept} |->
           metaTable(rows_[CHOOSE i \in kept :
               /\ rows_[i].database \o <<".">> \o rows_[i].name = n
               /\ \A j \in kept :
                     rows_[j].database \o <<".">> \o rows_[j].name = n
                     => j <= i])]

\* enrichWithCompleteInventory, analyzer.go:113-159, after the fetch
enrichWithCompleteInventory(tbls, allTables) ==
    [n \in DOMAIN tbls \cup DOMAIN allTables |->
        IF n \notin DOMAIN allTables THEN tbls[n]
        ELSE IF n \in DOMAIN tbls
        THEN [tbls[n] EXCEPT !.Engine = allTables[n].Engine,
                 !.IsReplicated = allTables[n].IsReplicated,
                 !.TotalBytes = allTables[n].TotalBytes,
                 !.TotalRows = allTables[n].TotalRows,
                 !.CreateTime = allTables[n].CreateTime,
                 !.IsMV = allTables[n].IsMV,
                 !.MVDependency = allTables[n].MVDependency,
                 !.ZeroUsage = FALSE]
        ELSE [allTables[n] EXCEPT !.ZeroUsage = TRUE, !.Reads = 0,
                 !.Writes = 0, !.LastAccess = ZeroTime,
                 !.FirstSeen = ZeroTime, !.Score = 0]]

\* the table names of the analysed logs and of the inventory
tblA == <<"d", ".", "a">>
tblB == <<"d", ".", "b">>
tblX == <<"x", ".", "t">>

\* query_kind values of system.query_log
queryKindSelect == <<"S", "e", "l", "e", "c", "t">>
queryKindInsert == <<"I", "n", "s", "e", "r", "t">>
queryKindShow == <<"S", "h", "o", "w">>

\* the client addresses of the analysed logs
ip1 == "1.1.1.1"
ip2 == "2.2.2.2"
ip3 == "3.3.3.3"

\* models.QueryLogEntry, the fields the analyzer reads
QueryLogEntry(kind, readRows, writtenRows, eventTime, clientIP, names) ==
    [QueryKind |-> kind, ReadRows |-> readRows, WrittenRows |-> writtenRows,
     EventTime |-> eventTime, ClientIP |-> clientIP, Tables |-> names]

\* what one entry did and who sent it, without its tables
EntryShapes ==
    {<<queryKindSelect, 0, 0, Now - 5, ip1>>,
     <<queryKindSelect, 5, 0, Now - 5, ip2>>,
     <<queryKindInsert, 0, 5, Now - 5, "">>,
     <<queryKindInsert, 5, 0, Now - 3, ip3>>,
     <<queryKindShow, 5, 5, Now - 5, ip2>>}

\* the tables one entry references; the empty name is what the analyzer
\* skips
EntryTables == {<<tblA>>, <<tblB, tblA>>, <<tblX, <<>>>>}

Entries ==
    {QueryLogEntry(s[1], s[2], s[3], s[4], s[5], t) :
        s \in EntryShapes, t \in EntryTables}

EntrySeqs == UNION {[1..n -> Entries] : n \in 0..MaxEntries}

\* the rows of system.tables
Inventory ==
    <<[database |-> <<"d">>, name |-> <<"a">>, engine |-> "MergeTree",
       total_bytes |-> 100, total_rows |-> 10, create_time |-> Now - 10 * Day,
       dep_databases |-> <<>>, dep_tables |-> <<>>],
      [database |-> <<"d">>, name |-> <<"c">>,
       engine |-> "ReplicatedMergeTree",
       total_bytes |-> 200, total_rows |-> 20, create_time |-> Now - 20 * Day,
       dep_databases |-> <<>>, dep_tables |-> <<>>],
      [database |-> <<"d">>, name |-> <<"m", "v">>,
       engine |-> "MaterializedView",
       total_bytes |-> 0, total_rows |-> 0, create_time |-> Now - 5 * Day,
       dep_databases |-> << <<"d">> >>, dep_tables |-> << <<"a">> >>],
      [database |-> <<"x">>, name |-> <<"t">>, engine |-> "MergeTree",
       total_bytes |-> 300, total_rows |-> 30, create_time |-> Now - 30 * Day,
       dep_databases |-> <<>>, dep_tables |-> <<>>],
      [database |-> <<"s", "y", "s", "t", "e", "m">>, name |-> <<"t">>,
       engine |-> "SystemTables",
       total_bytes |-> 0, total_rows |-> 0, create_time |-> ZeroTime,
       dep_databases |-> <<>>, dep_tables |-> <<>>]>>

\* the configurations the analyzer is run with
AnalyzerConfigs ==
    {[DetectUnusedTables |-> FALSE, ExcludeTables |-> <<>>,
      ExcludeDatabases |-> <<>>, ResolveK8s |-> FALSE,
      AnomalyDetection |-> FALSE],
     [DetectUnusedTables |-> FALSE, ExcludeTables |-> <<>>,
      ExcludeDatabases |-> <<>>, ResolveK8s |-> TRUE,
      AnomalyDetection |-> TRUE],
     [DetectUnusedTables |-> TRUE, ExcludeTables |-> << <<"x", ".", "*">> >>,
      ExcludeDatabases |-> <<>>, ResolveK8s |-> TRUE,
      AnomalyDetection |-> FALSE],
     [DetectUnusedTables |-> TRUE, ExcludeTables |-> <<>>,
      ExcludeDatabases |-> << <<" ", "X">> >>, ResolveK8s |-> FALSE,
      AnomalyDetection |-> FALSE]}

\* what the resolver of the run answers for an address: a resolved
\* identity, the fallback identity, or an error
resolverAnswer(ip) ==
    IF ip = ip1
    THEN [err |-> FALSE, Service |-> "app-svc", Namespace |-> "ns",
          Pod |-> "pod-1"]
    ELSE IF ip = ip2
    THEN [err |-> FALSE, Service |-> ip, Namespace |-> "", Pod |-> ""]
    ELSE [err |-> TRUE, Service |-> "", Namespace |-> "", Pod |-> ""]

\* the service buildServiceModel creates for an address it has not seen
\* (service_analyzer.go:20-38)
newService(c, entry) ==
    LET info == resolverAnswer(entry.ClientIP)
        named == c.ResolveK8s /\ ~info.err
    IN [IP |-> entry.ClientIP,
        K8sService |-> IF named THEN info.Service ELSE "",
        K8sNamespace |-> IF named THEN info.Namespace ELSE "",
        K8sPod |-> IF named THEN info.Pod ELSE "",
        TablesUsed |-> <<>>, QueryCount |-> 0, LastSeen |-> entry.EventTime]

RECURSIVE tablesUsed(_, _, _)
\* service.TablesUsed after the names of one entry
\* (service_analyzer.go:49-68)
tablesUsed(used, c, names) ==
    IF names = <<>> THEN used
    ELSE IF \/ Head(names) = <<>>
            \/ IsTableExcluded(c, Head(names))
            \/ \E i \in DOMAIN used : used[i] = Head(names)
    THEN tablesUsed(used, c, Tail(names))
    ELSE tablesUsed(Append(used, Head(names)), c, Tail(names))

\* the body of the loop of buildServiceModel for one entry
touchService(svcs, c, entry) ==
    IF entry.ClientIP = "" THEN svcs
    ELSE LET service == IF entry.ClientIP \in DOMAIN svcs
                        THEN svcs[entry.ClientIP]
                        ELSE newService(c, entry)
             updated == [service EXCEPT
                 !.QueryCount = @ + 1,
                 !.LastSeen = IF entry.EventTime > @ THEN entry.EventTime
                              ELSE @,
                 !.TablesUsed = tablesUsed(@, c, entry.Tables)]
         IN [s \in DOMAIN svcs \cup {entry.ClientIP} |->
                IF s = entry.ClientIP THEN updated ELSE svcs[s]]

RECURSIVE buildServiceModel(_, _, _)
\* buildServiceModel, service_analyzer.go:11-76
buildServiceModel(svcs, c, es) ==
    IF es = <<>> THEN svcs
    ELSE buildServiceModel(touchService(svcs, c, Head(es)), c, Tail(es))

\* the body of the inner loop of buildEdges for one table name
\* (edge_builder.go:31-64)
touchEdge(edgeMap, svcs, entry, tableName) ==
    IF tableName = <<>> THEN edgeMap
    ELSE LET key == <<entry.ClientIP, tableName>>
             edge == IF key \in DOMAIN edgeMap THEN edgeMap[key]
                     ELSE [ServiceIP |-> entry.ClientIP,
                           ServiceName |->
                               IF /\ entry.ClientIP \in DOMAIN svcs
                                  /\ svcs[entry.ClientIP].K8sService # ""
                               THEN svcs[entry.ClientIP].K8sService
                               ELSE entry.ClientIP,
                           TableName |-> tableName, Reads |-> 0,
                           Writes |-> 0, LastActivity |-> entry.EventTime]
             updated == [edge EXCEPT
                 !.Reads = tableReads(edge, entry),
                 !.Writes = tableWrites(edge, entry),
                 !.LastActivity = IF entry.EventTime > @
                                  THEN entry.EventTime ELSE @]
         IN [k \in DOMAIN edgeMap \cup {key} |->
                IF k = key THEN updated ELSE edgeMap[k]]

RECURSIVE touchEdges(_, _, _, _)
touchEdges(edgeMap, svcs, entry, names) ==
    IF names = <<>> THEN edgeMap
    ELSE touchEdges(touchEdge(edgeMap, svcs, entry, Head(names)), svcs,
                    entry, Tail(names))

RECURSIVE buildEdges(_, _, _)
\* buildEdges, edge_builder.go:16-78: the edge map whose values become
\* Analyzer.edges
buildEdges(edgeMap, svcs, es) ==
    IF es = <<>> THEN edgeMap
    ELSE IF Head(es).ClientIP = "" THEN buildEdges(edgeMap, svcs, Tail(es))
    ELSE buildEdges(touchEdges(edgeMap, svcs, Head(es), Head(es).Tables),
                    svcs, Tail(es))

\* one anomaly of detectAnomalies
tableAnomaly(type, description, severity, tableName) ==
    [Type |-> type, Description |-> description, Severity |-> severity,
     AffectedTable |-> tableName, AffectedService |-> "", DetectedAt |-> Now]

\* the anomalies detectAnomalies appends for one table
\* (anomaly_detector.go:14-72)
tableAnomalies(tableName, table) ==
    LET totalAccess == table.Reads + table.Writes
        sinceAccess == Now - table.LastAccess
    IN IF totalAccess = 1
       THEN <<tableAnomaly("single_access",
                  "Table accessed only once in lookback period", "low",
                  tableName)>>
       ELSE (IF sinceAccess > 30 * Day
             THEN <<tableAnomaly("stale_table",
                        "Table not accessed in over 30 days", "medium",
                        tableName)>>
             ELSE <<>>)
            \o (IF table.Writes > 0 /\ table.Reads = 0
                THEN <<tableAnomaly("write_only",
                     "Table has writes but no reads (possible data sink)",
                     "low", tableName)>>
                ELSE <<>>)
            \o (IF table.Reads > 100 /\ table.Writes = 0
                THEN <<tableAnomaly("read_only",
             "Table has many reads but no writes (check if data is stale)",
                     "low", tableName)>>
                ELSE <<>>)
            \o (IF totalAccess < 10 /\ sinceAccess > 7 * Day
                THEN <<tableAnomaly("low_activity",
                     "Table has very low activity (< 10 accesses)",
                     "medium", tableName)>>
                ELSE <<>>)

RECURSIVE serviceAnomalies(_, _)
\* the service loop of detectAnomalies (anomaly_detector.go:75-86) over
\* the addresses in the order given
serviceAnomalies(order, svcs) ==
    IF order = <<>> THEN <<>>
    ELSE (IF Len(svcs[Head(order)].TablesUsed) > 20
          THEN <<[Type |-> "broad_access",
                  Description |->
 "Service accesses many tables (> 20), check for over-privileged access",
                  Severity |-> "low", AffectedTable |-> <<>>,
                  AffectedService |-> Head(order), DetectedAt |-> Now]>>
          ELSE <<>>)
         \o serviceAnomalies(Tail(order), svcs)

RECURSIVE detectAnomalies(_, _, _, _)
\* detectAnomalies, anomaly_detector.go:11-91, with the tables and the
\* services ranged over in the orders given
detectAnomalies(order, serviceOrder, tbls, svcs) ==
    IF order = <<>> THEN serviceAnomalies(serviceOrder, svcs)
    ELSE tableAnomalies(Head(order), tbls[Head(order)])
         \o detectAnomalies(Tail(order), serviceOrder, tbls, svcs)

notAnalyzer == <<comp, retryVars, fetchVars, baseVars, scorerVars, cliVars,
                 resolverVars, laterVars>>

\* Analyze, step 1 (analyzer.go:49-52)
AnalyzeBuildTableModel ==
    /\ comp = "analyzer"
    /\ apc = "start"
    /\ tables' = buildTableModel(tables, acfg, logEntries)
    /\ apc' = IF acfg.DetectUnusedTables THEN "enrich" ELSE "services"
    /\ UNCHANGED <<services, edges, anomalies, logEntries, catalog, acfg>>
    /\ UNCHANGED notAnalyzer

\* Analyze, step 1.5 (analyzer.go:55-59) with a fetch that succeeds
AnalyzeEnrich ==
    /\ comp = "analyzer"
    /\ apc = "enrich"
    /\ tables' = enrichWithCompleteInventory(tables,
                     FetchTableMetadata(catalog, acfg))
    /\ apc' = "services"
    /\ UNCHANGED <<services, edges, anomalies, logEntries, catalog, acfg>>
    /\ UNCHANGED notAnalyzer

\* Analyze, step 1.5 with a fetch that fails: Analyze returns the error
AnalyzeEnrichFails ==
    /\ comp = "analyzer"
    /\ apc = "enrich"
    /\ apc' = "failed"
    /\ UNCHANGED <<tables, services, edges, anomalies, logEntries, catalog,
                   acfg>>
    /\ UNCHANGED notAnalyzer

\* Analyze, step 2 (analyzer.go:62-65)
AnalyzeBuildServiceModel ==
    /\ comp = "analyzer"
    /\ apc = "services"
    /\ services' = buildServiceModel(services, acfg, logEntries)
    /\ apc' = "edges"
    /\ UNCHANGED <<tables, edges, anomalies, logEntries, catalog, acfg>>
    /\ UNCHANGED notAnalyzer

\* Analyze, step 3 (analyzer.go:67-70)
AnalyzeBuildEdges ==
    /\ comp = "analyzer"
    /\ apc = "edges"
    /\ edges' = buildEdges(EmptyMap, services, logEntries)
    /\ apc' = IF acfg.AnomalyDetection THEN "anomalies" ELSE "sparklines"
    /\ UNCHANGED <<tables, services, anomalies, logEntries, catalog, acfg>>
    /\ UNCHANGED notAnalyzer

\* Analyze, step 4 (analyzer.go:72-75); the two maps are ranged over in
\* an order the runtime picks
AnalyzeDetectAnomalies(order, serviceOrder) ==
    /\ comp = "analyzer"
    /\ apc = "anomalies"
    /\ anomalies' = anomalies
                    \o detectAnomalies(order, serviceOrder, tables, services)
    /\ apc' = "sparklines"
    /\ UNCHANGED <<tables, services, edges, logEntries, catalog, acfg>>
    /\ UNCHANGED notAnalyzer

\* Analyze, step 5 (analyzer.go:77-80)
AnalyzeGenerateSparklines ==
    /\ comp = "analyzer"
    /\ apc = "sparklines"
    /\ tables' = generateSparklines(tables, logEntries)
    /\ apc' = "done"
    /\ UNCHANGED <<services, edges, anomalies, logEntries, catalog, acfg>>
    /\ UNCHANGED notAnalyzer

InitAnalyzer ==
    /\ comp = "analyzer"
    /\ IdleRetry
    /\ qlog = <<>>
    /\ IdleFetch
    /\ IdleCli
    /\ IdleResolver
    /\ IdleLater
    /\ IdleBaseline
    /\ IdleScorer
    /\ tables = EmptyMap /\ services = EmptyMap
    /\ edges = EmptyMap /\ anomalies = <<>>
    /\ logEntries \in EntrySeqs
    /\ catalog = Inventory
    /\ acfg \in AnalyzerConfigs
    /\ apc = "start"

NextAnalyzer ==
    \/ AnalyzeBuildTableModel
    \/ AnalyzeEnrich
    \/ AnalyzeEnrichFails
    \/ AnalyzeBuildServiceModel
    \/ AnalyzeBuildEdges
    \/ \E order \in KeyOrders(tables), serviceOrder \in KeyOrders(services) :
          AnalyzeDetectAnomalies(order, serviceOrder)
    \/ AnalyzeGenerateSparklines

SpecAnalyzer == InitAnalyzer /\ [][NextAnalyzer]_vars

\* some row of the log references the table
Referenced(n) ==
    \E i \in DOMAIN logEntries : \E j \in DOMAIN logEntries[i].Tables :
        logEntries[i].Tables[j] = n

\* some row referencing the table is a read query that read rows or a
\* write query that wrote rows
Counted(n) ==
    \E i \in DOMAIN logEntries : \E j \in DOMAIN logEntries[i].Tables :
        /\ logEntries[i].Tables[j] = n
        /\ \/ isReadQuery(logEntries[i].QueryKind)
              /\ logEntries[i].ReadRows > 0
           \/ ~isReadQuery(logEntries[i].QueryKind)
              /\ isWriteQuery(logEntries[i].QueryKind)
              /\ logEntries[i].WrittenRows > 0

\* C10 as stated: after the analysis a table has reads + writes = 0 iff no
\* log row referenced it, and every zero-usage table has reads + writes = 0
\* and an empty activity series
C10_ZeroIffUnreferenced ==
    apc = "done" =>
        \A n \in DOMAIN tables :
            /\ (tables[n].Reads + tables[n].Writes = 0) <=> ~Referenced(n)
            /\ tables[n].ZeroUsage =>
                  /\ tables[n].Reads + tables[n].Writes = 0
                  /\ tables[n].Sparkline = <<>>

\* C10 amended: after the analysis a table has reads + writes > 0 iff some
\* log row referencing it is a read query with read_rows > 0 or a write
\* query with written_rows > 0; a table no log row referenced has
\* reads + writes = 0; every zero-usage table is in the catalog, unseen in
\* the log, and has reads + writes = 0 and an empty activity series
C10_ZeroIffNoCountedRow ==
    apc = "done" =>
        \A n \in DOMAIN tables :
            /\ (tables[n].Reads + tables[n].Writes > 0) <=> Counted(n)
            /\ ~Referenced(n) => tables[n].Reads + tables[n].Writes = 0
            /\ tables[n].ZeroUsage =>
                  /\ n \in DOMAIN FetchTableMetadata(catalog, acfg)
                  /\ ~Referenced(n)
                  /\ tables[n].Reads + tables[n].Writes = 0
                  /\ tables[n].Sparkline = <<>>

\* an analysis that ends with a counted table, a table referenced only by
\* rows that count nothing, and a zero-usage table
C10_Witness ==
    /\ apc = "done"
    /\ \E n \in DOMAIN tables :
          Referenced(n) /\ tables[n].Reads + tables[n].Writes > 0
    /\ \E n \in DOMAIN tables :
          Referenced(n) /\ tables[n].Reads + tables[n].Writes = 0
    /\ \E n \in DOMAIN tables : tables[n].ZeroUsage


\* C11: after the analysis every edge (c, t) has a client with address c
\* and a table named t in the output, and t matches no exclusion pattern
C11_EdgeEndpointsPresent ==
    apc = "done" =>
        \A k \in DOMAIN edges :
            /\ edges[k].ServiceIP \in DOMAIN services
            /\ edges[k].TableName \in DOMAIN tables
            /\ ~IsTableExcluded(acfg, edges[k].TableName)


RECURSIVE seriesTotal(_)
\* the sum of the values of an activity series
seriesTotal(series) ==
    IF series = <<>> THEN 0
    ELSE Head(series).Value + seriesTotal(Tail(series))

\* C12: after the analysis the activity series of every table is strictly
\* ascending by timestamp, with one point per hour bucket, and its values
\* sum to the number of log rows whose table list contains the table
C12_SeriesSortedAndComplete ==
    apc = "done" =>
        \A n \in DOMAIN tables :
            /\ \A i, j \in DOMAIN tables[n].Sparkline :
                  i < j => tables[n].Sparkline[i].Timestamp
                           < tables[n].Sparkline[j].Timestamp
            /\ \A i \in DOMAIN tables[n].Sparkline :
                  tables[n].Sparkline[i].Timestamp % Hour = 0
            /\ seriesTotal(tables[n].Sparkline)
               = Cardinality({i \in DOMAIN logEntries :
                     \E j \in DOMAIN logEntries[i].Tables :
                         logEntries[i].Tables[j] = n})

\* an analysis that ends with a table whose series has two hour buckets
\* next to a table without any activity
C12_Witness ==
    /\ apc = "done"
    /\ \E n \in DOMAIN tables : Len(tables[n].Sparkline) = 2
    /\ \E n \in DOMAIN tables : tables[n].Sparkline = <<>>


----------------------------------------------------------------------------
(* The analyze command from the built report on: applyBaseline, the report *)
(* writer and the exit code (cmd/clickspectre)                              *)

MaxCliRuns == 2          \* largest number of consecutive runs of the command

\* baseline.DefaultPath
DefaultPath == ".clickspectre_baseline.json"

ExitSuccess == 0
ExitInternal == 1
ExitInvalidArg == 2
ExitNotFound == 3
ExitNetwork == 5
ExitFindings == 6

\* an error value, by what classifyError can observe of it: whether it is
\* nil, whether it is a *FindingsError, whether os.IsNotExist accepts it,
\* and the marker substrings its lower-cased message contains
cliError(isFindings, count, notExist, words) ==
    [nil |-> FALSE, findings |-> isFindings, count |-> count,
     notExist |-> notExist, words |-> words]

NilError ==
    [nil |-> TRUE, findings |-> FALSE, count |-> 0, notExist |-> FALSE,
     words |-> {}]

\* classifyError
classifyError(err) ==
    IF err.nil THEN ExitSuccess
    ELSE IF err.findings THEN ExitFindings
    ELSE IF err.notExist THEN ExitNotFound
    ELSE IF err.words \cap {"not a directory", "does not exist",
                            "no such file"} # {}
    THEN ExitNotFound
    ELSE IF err.words \cap {"dial", "connection refused", "i/o timeout",
                            "network is unreachable"} # {}
    THEN ExitNetwork
    ELSE IF err.words \cap {"required", "invalid", "must be", "expected"} # {}
    THEN ExitInvalidArg
    ELSE ExitInternal

\* a baseline file of the findings API: absent, or present with complete
\* content, with content cut short, or with content that is no JSON
NoFile == [exists |-> FALSE, state |-> "complete", findings |-> <<>>]

FindingsFile(fs) == [exists |-> TRUE, state |-> "complete", findings |-> fs]

\* Load of the findings API: os.ReadFile and json.Unmarshal
LoadFindings(filePath, fs) ==
    IF ~fs[filePath].exists THEN [findings |-> <<>>, err |-> NilError]
    ELSE IF fs[filePath].state = "complete"
    THEN [findings |-> fs[filePath].findings, err |-> NilError]
    ELSE IF fs[filePath].state = "garbage"
    THEN [findings |-> <<>>, err |-> cliError(FALSE, 0, FALSE, {"invalid"})]
    ELSE [findings |-> <<>>, err |-> cliError(FALSE, 0, FALSE, {"expected"})]

RECURSIVE lastByFingerprint(_)
\* the values of mergedSet: of the findings with one fingerprint the last
\* one put into the map stays
lastByFingerprint(fs) ==
    IF fs = <<>> THEN <<>>
    ELSE IF \E j \in 2..Len(fs) : fs[j].Fingerprint = Head(fs).Fingerprint
    THEN lastByFingerprint(Tail(fs))
    ELSE <<Head(fs)>> \o lastByFingerprint(Tail(fs))

MergeFindingsMutant(existingFindings, newFindings) ==
    sortFindings(lastByFingerprint(existingFindings))
\* MergeFindings
MergeFindings(existingFindings, newFindings) ==
    sortFindings(lastByFingerprint(existingFindings \o newFindings))

countFindingsMutant(r) ==
    Len(r.ZeroUsageNonReplicated) + Len(r.ZeroUsageReplicated)
    + Len(r.SafeToDrop) + Len(r.LikelySafe)
\* countFindings of the command
countFindings(r) ==
    Len(r.ZeroUsageNonReplicated) + Len(r.ZeroUsageReplicated)
    + Len(r.SafeToDrop) + Len(r.LikelySafe) + Len(r.Anomalies)

\* the path applyBaseline works on
baselinePath(c) == IF c.BaselinePath = "" THEN DefaultPath ELSE c.BaselinePath

\* the reports the command builds
CliReports ==
    {[Anomalies |-> a, ZeroUsageNonReplicated |-> z[1],
      ZeroUsageReplicated |-> <<>>, SafeToDrop |-> s, LikelySafe |-> <<>>,
      Keep |-> z[2]] :
        a \in {<<>>, <<Anomaly(CHOOSE k \in AnomalyKinds :
                                   k.Type = "stale_table", 1)>>},
        z \in {<<<<>>, <<>>>>,
               <<<<TableRecommendation("db.z", "MergeTree", FALSE, 1)>>,
                 <<"db.k">>>>},
        s \in {<<>>, <<"db.a", "db.b">>, <<"db.a", "db.b", "db.c">>}}

\* the flags of the command
CliConfigs ==
    {[BaselinePath |-> "", UpdateBaseline |-> FALSE, DryRun |-> FALSE],
     [BaselinePath |-> "", UpdateBaseline |-> FALSE, DryRun |-> TRUE],
     [BaselinePath |-> "", UpdateBaseline |-> TRUE, DryRun |-> FALSE],
     [BaselinePath |-> "base.json", UpdateBaseline |-> FALSE,
      DryRun |-> FALSE],
     [BaselinePath |-> "base.json", UpdateBaseline |-> TRUE,
      DryRun |-> FALSE]}

\* the baseline files found by the first run
CliFiles ==
    {[p \in {DefaultPath, "base.json"} |-> NoFile],
     [p \in {DefaultPath, "base.json"} |->
         IF p = "base.json"
         THEN FindingsFile(GenerateFindings(
                  [EmptyReport EXCEPT !.SafeToDrop = <<"db.a">>]))
         ELSE NoFile],
     [p \in {DefaultPath, "base.json"} |->
         [exists |-> TRUE, state |-> "garbage", findings |-> <<>>]]}

notCli == <<comp, retryVars, fetchVars, modelVars, analyzerVars, scorerVars,
            resolverVars, laterVars, bpc, fingerprints, previous, known,
            remaining, saved>>

\* the record the run leaves behind when it ends
runRecord(stage, code, finalReport, ops) ==
    [cfg |-> ccfg, produced |-> before, report |-> finalReport,
     stage |-> stage, exit |-> code, ops |-> ops]

\* applyBaseline up to the save: the load, GenerateFindings and, with
\* --baseline alone, ApplySuppression (deploy.go:1014-1046)
CliLoadBaseline ==
    /\ comp = "cli"
    /\ cpc = "start"
    /\ LET res == LoadFindings(baselinePath(ccfg), files)
           ops == Append(fileOps, <<"read", baselinePath(ccfg)>>)
           current == GenerateFindings(report)
           suppress == ccfg.BaselinePath # "" /\ ~ccfg.UpdateBaseline
           applied == ApplySuppression(report, res.findings)
       IN /\ fileOps' = ops
          /\ IF res.err.nil
             THEN /\ loaded' = res.findings
                  /\ findings' = current
                  /\ report' = IF suppress THEN applied.report ELSE report
                  /\ suppressed' = IF suppress THEN applied.suppressedCount
                                   ELSE 0
                  /\ cpc' = IF ccfg.UpdateBaseline THEN "save" ELSE "output"
                  /\ UNCHANGED <<exitCode, runsLog>>
             ELSE /\ exitCode' = classifyError(res.err)
                  /\ runsLog' = Append(runsLog,
                         runRecord("load", classifyError(res.err), report, ops))
                  /\ cpc' = "exited"
                  /\ UNCHANGED <<loaded, findings, report, suppressed>>
    /\ UNCHANGED <<ccfg, before, files>>
    /\ UNCHANGED notCli

\* Save of the findings API, os.WriteFile, first half: the file is opened
\* with O_CREATE and O_TRUNC
CliSaveOpen ==
    /\ comp = "cli"
    /\ cpc = "save"
    /\ files' = [files EXCEPT ![baselinePath(ccfg)] =
                    [exists |-> TRUE, state |-> "truncated",
                     findings |-> <<>>]]
    /\ fileOps' = Append(fileOps, <<"write", baselinePath(ccfg)>>)
    /\ cpc' = "saving"
    /\ UNCHANGED <<ccfg, report, before, loaded, findings, suppressed,
                   exitCode, runsLog>>
    /\ UNCHANGED notCli

\* os.WriteFile cannot open the file: applyBaseline returns the error
CliSaveFails ==
    /\ comp = "cli"
    /\ cpc = "save"
    /\ LET ops == Append(fileOps, <<"write", baselinePath(ccfg)>>)
           code == classifyError(cliError(FALSE, 0, FALSE, {}))
       IN /\ fileOps' = ops
          /\ exitCode' = code
          /\ runsLog' = Append(runsLog, runRecord("save", code, report, ops))
    /\ cpc' = "exited"
    /\ UNCHANGED <<ccfg, report, before, loaded, findings, suppressed, files>>
    /\ UNCHANGED notCli

\* os.WriteFile, second half: the merged findings are written and the file
\* is closed
CliSaveWrite ==
    /\ comp = "cli"
    /\ cpc = "saving"
    /\ files' = [files EXCEPT ![baselinePath(ccfg)] =
                    FindingsFile(MergeFindings(loaded, findings))]
    /\ cpc' = "output"
    /\ UNCHANGED <<ccfg, report, before, loaded, findings, suppressed,
                   fileOps, exitCode, runsLog>>
    /\ UNCHANGED notCli

\* the process dies while Save runs: before the open, or after it with
\* none or a part of the bytes written
CliCrash(partial) ==
    /\ comp = "cli"
    /\ cpc \in {"save", "saving"}
    /\ files' = IF cpc = "saving" /\ partial
                THEN [files EXCEPT ![baselinePath(ccfg)].state = "partial"]
                ELSE files
    /\ runsLog' = Append(runsLog, runRecord("crash", -1, report, fileOps))
    /\ cpc' = "crashed"
    /\ UNCHANGED <<ccfg, report, before, loaded, findings, suppressed,
                   fileOps, exitCode>>
    /\ UNCHANGED notCli

\* step 8 of runAnalyze: the report is written unless --dry-run
CliWriteReport ==
    /\ comp = "cli"
    /\ cpc = "output"
    /\ cpc' = "count"
    /\ UNCHANGED <<ccfg, report, before, loaded, findings, suppressed,
                   files, fileOps, exitCode, runsLog>>
    /\ UNCHANGED notCli

\* step 8 with a report writer that fails
CliWriteReportFails ==
    /\ comp = "cli"
    /\ cpc = "output"
    /\ ~ccfg.DryRun
    /\ LET code == classifyError(cliError(FALSE, 0, FALSE, {}))
       IN /\ exitCode' = code
          /\ runsLog' = Append(runsLog,
                            runRecord("output", code, report, fileOps))
    /\ cpc' = "exited"
    /\ UNCHANGED <<ccfg, report, before, loaded, findings, suppressed,
                   files, fileOps>>
    /\ UNCHANGED notCli

\* step 9 of runAnalyze and the exit of main (deploy.go:842-847)
CliExit ==
    /\ comp = "cli"
    /\ cpc = "count"
    /\ LET err == IF countFindings(report) > 0
                  THEN cliError(TRUE, countFindings(report), FALSE, {})
                  ELSE NilError
       IN /\ exitCode' = classifyError(err)
          /\ runsLog' = Append(runsLog,
                 runRecord("counted", classifyError(err), report, fileOps))
    /\ cpc' = "exited"
    /\ UNCHANGED <<ccfg, report, before, loaded, findings, suppressed,
                   files, fileOps>>
    /\ UNCHANGED notCli

\* the command is run again, on the files the run before left
CliNextRun(r, c) ==
    /\ comp = "cli"
    /\ cpc \in {"exited", "crashed"}
    /\ Len(runsLog) < MaxCliRuns
    /\ report' = r /\ before' = r /\ ccfg' = c
    /\ loaded' = <<>> /\ findings' = <<>> /\ suppressed' = 0
    /\ fileOps' = <<>> /\ exitCode' = -1
    /\ cpc' = "start"
    /\ UNCHANGED <<files, runsLog>>
    /\ UNCHANGED notCli

\* the report of the next run: the same tables, or db.c found in addition
NextReports(r) ==
    {r} \cup {x \in CliReports :
                 /\ x.SafeToDrop = <<"db.a", "db.b", "db.c">>
                 /\ r.SafeToDrop = <<"db.a", "db.b">>
                 /\ x.Anomalies = r.Anomalies /\ x.Keep = r.Keep}

InitCli ==
    /\ comp = "cli"
    /\ IdleRetry
    /\ qlog = <<>>
    /\ IdleFetch
    /\ IdleAnalyzer
    /\ IdleScorer
    /\ IdleResolver
    /\ IdleLater
    /\ report \in CliReports
    /\ before = report
    /\ bpc = "idle"
    /\ fingerprints = <<>> /\ findings = <<>>
    /\ previous = [of |-> "none", fingerprints |-> <<>>, findings |-> <<>>]
    /\ known = {} /\ suppressed = 0 /\ remaining = 0
    /\ files \in CliFiles
    /\ saved = [path |-> "", set |-> {}]
    /\ loaded = <<>>
    /\ ccfg \in CliConfigs
    /\ cpc = "start" /\ exitCode = -1 /\ fileOps = <<>> /\ runsLog = <<>>

NextCli ==
    \/ CliLoadBaseline
    \/ CliSaveOpen
    \/ CliSaveFails
    \/ CliSaveWrite
    \/ \E partial \in BOOLEAN : CliCrash(partial)
    \/ CliWriteReport
    \/ CliWriteReportFails
    \/ CliExit
    \/ \E r \in NextReports(before), c \in CliConfigs : CliNextRun(r, c)

SpecCli == InitCli /\ [][NextCli]_vars


\* the findings left in a report: the entries of the four finding buckets
\* and the anomalies
FindingsLeft(r) ==
    Len(r.ZeroUsageNonReplicated) + Len(r.ZeroUsageReplicated)
    + Len(r.SafeToDrop) + Len(r.LikelySafe) + Len(r.Anomalies)

\* C13: a run that completes exits with the findings-detected code 6 iff,
\* after baseline suppression, the finding buckets and the anomalies
\* together are not empty, and with 0 otherwise; no other run exits with 6
C13_FindingsSignal ==
    \A i \in DOMAIN runsLog :
        /\ runsLog[i].exit = ExitFindings
           <=> runsLog[i].stage = "counted" /\ FindingsLeft(runsLog[i].report) > 0
        /\ runsLog[i].stage = "counted" /\ FindingsLeft(runsLog[i].report) = 0
           => runsLog[i].exit = ExitSuccess

\* a run whose only findings are anomalies exits with 6, and a run whose
\* findings the baseline suppressed all exits with 0
C13_Witness ==
    /\ \E i \in DOMAIN runsLog :
          /\ runsLog[i].exit = ExitFindings
          /\ runsLog[i].report.SafeToDrop = <<>>
          /\ runsLog[i].report.Anomalies # <<>>
    /\ \E i \in DOMAIN runsLog :
          /\ runsLog[i].exit = ExitSuccess
          /\ FindingsLeft(runsLog[i].produced) > 0


\* run i wrote the baseline at path p: it ran with update_baseline on p and
\* its save went through
WroteBaseline(i, p) ==
    /\ runsLog[i].cfg.UpdateBaseline
    /\ baselinePath(runsLog[i].cfg) = p
    /\ runsLog[i].stage \in {"counted", "output"}

\* C14: when a run that produced safe-to-drop = {db.a, db.b} wrote the
\* baseline and the next run produces safe-to-drop = {db.a, db.b, db.c} and
\* suppresses against that baseline, only db.c remains in safe-to-drop and
\* the second run exits with findings-detected
C14_SecondRunKeepsOnlyNew ==
    \A i \in DOMAIN runsLog :
        /\ i > 1
        /\ Range(runsLog[i - 1].produced.SafeToDrop) = {"db.a", "db.b"}
        /\ runsLog[i].cfg.BaselinePath # ""
        /\ ~runsLog[i].cfg.UpdateBaseline
        /\ WroteBaseline(i - 1, runsLog[i].cfg.BaselinePath)
        /\ Range(runsLog[i].produced.SafeToDrop) = {"db.a", "db.b", "db.c"}
        /\ runsLog[i].stage = "counted"
        => /\ runsLog[i].report.SafeToDrop = <<"db.c">>
           /\ runsLog[i].report.ZeroUsageNonReplicated = <<>>
           /\ runsLog[i].report.Anomalies = <<>>
           /\ runsLog[i].exit = ExitFindings

\* two such runs: the first writes the baseline for db.a and db.b, the
\* second suppresses against it and ends
C14_Witness ==
    /\ Len(runsLog) = 2
    /\ Range(runsLog[1].produced.SafeToDrop) = {"db.a", "db.b"}
    /\ WroteBaseline(1, "base.json")
    /\ runsLog[2].cfg.BaselinePath = "base.json"
    /\ ~runsLog[2].cfg.UpdateBaseline
    /\ Range(runsLog[2].produced.SafeToDrop) = {"db.a", "db.b", "db.c"}
    /\ runsLog[2].stage = "counted"
    /\ runsLog[2].exit = ExitFindings


\* C15: every run follows the mode matrix of the baseline engine: with
\* neither baseline_path nor update_baseline no baseline file is read or
\* written, the report stays as produced and no baseline error ends the
\* run; with baseline_path alone the file is loaded and never written; with
\* update_baseline the file at baseline_path, or at the default path, is
\* loaded and then saved
C15_ModeMatrix ==
    \A i \in DOMAIN runsLog :
        LET run == runsLog[i]
            p == baselinePath(run.cfg)
        IN IF run.cfg.UpdateBaseline
           THEN /\ run.ops # <<>> /\ run.ops[1] = <<"read", p>>
                /\ run.stage \in {"counted", "output"}
                   => run.ops = <<<<"read", p>>, <<"write", p>>>>
                /\ run.report = run.produced
           ELSE IF run.cfg.BaselinePath # ""
           THEN run.ops = <<<<"read", p>>>>
           ELSE /\ run.ops = <<>>
                /\ run.report = run.produced
                /\ run.stage \notin {"load", "save"}

\* C16: when the process dies during the save of the baseline, no baseline
\* file is left cut short: each is the complete file it was before or the
\* complete new one
C16_NoHalfWrittenBaseline ==
    cpc = "crashed" =>
        \A p \in DOMAIN files : files[p].state \notin {"truncated", "partial"}

----------------------------------------------------------------------------
(* Workload resolver: internal/k8s/resolver.go, cache.go.  One step is one  *)
(* ResolveIP call made by buildServiceModel for a new client address.       *)

MaxLookups == 3
MaxClock == 3

\* Cache.ttl (config K8sCacheTTL), in ticks of the clock
ttl == 2

\* Cache.maxSize, scaled down from 10000
maxSize == 2

\* k8s.ServiceInfo
ServiceInfo(service, namespace, pod) ==
    [Service |-> service, Namespace |-> namespace, Pod |-> pod]

\* the nil *ServiceInfo
NilInfo == ServiceInfo("<nil>", "<nil>", "<nil>")

\* client addresses as ClickHouse reports them
Addresses == {"10.0.0.1", "::ffff:10.0.0.1", "10.0.0.3", "10.0.0.4"}

\* queryK8sAPI, resolver.go:103-112: ip[7:] of an address that starts with
\* "::ffff:" and is longer than 7 characters
cleanIP(ip) == IF ip = "::ffff:10.0.0.1" THEN "10.0.0.1" ELSE ip

\* the pods of the cluster by status.podIP; Selected is the name of a service
\* whose selector matches the pod's labels
ClusterPods ==
    [a \in {"10.0.0.1"} |->
        [Name |-> "pod-1", Namespace |-> "ns1", Selected |-> "svc-1"]]

\* the services of the cluster by ClusterIP
ClusterServices ==
    [a \in {"10.0.0.3"} |-> [Name |-> "svc-3", Namespace |-> "ns3"]]

\* what the Kubernetes API does during one queryK8sAPI
ApiOutcomes == {"ok", "podsErr", "servicesErr"}

\* resolvePodToService, resolver.go:145-174: a failed service list is ignored
\* and the pod name is used
resolvePodToService(pod, api) ==
    LET serviceName == IF api = "servicesErr" THEN "" ELSE pod.Selected
    IN ServiceInfo(IF serviceName = "" THEN pod.Name ELSE serviceName,
                   pod.Namespace, pod.Name)

\* findServiceByIP, resolver.go:178-234
findServiceByIP(ip, api) ==
    IF api = "servicesErr" THEN [info |-> NilInfo, err |-> TRUE]
    ELSE IF ip \in DOMAIN ClusterServices
    THEN [info |-> ServiceInfo(ClusterServices[ip].Name,
                               ClusterServices[ip].Namespace, ""),
          err |-> FALSE]
    ELSE [info |-> NilInfo, err |-> TRUE]

\* queryK8sAPI, resolver.go:98-142
queryK8sAPI(ip, api) ==
    LET clean == cleanIP(ip)
        found == findServiceByIP(clean, api)
    IN IF api = "podsErr" THEN [info |-> NilInfo, err |-> TRUE]
       ELSE IF clean \in DOMAIN ClusterPods
       THEN [info |-> resolvePodToService(ClusterPods[clean], api),
             err |-> FALSE]
       ELSE IF ~found.err /\ found.info # NilInfo THEN found
       ELSE [info |-> NilInfo, err |-> TRUE]

\* Cache.Get, cache.go:39-54
cacheGet(entries, ip, now) ==
    IF ip \notin DOMAIN entries THEN NilInfo
    ELSE IF now > entries[ip].ExpiresAt THEN NilInfo
    ELSE entries[ip].Info

\* the entries evictOldest leaves after its first pass, cache.go:77-87
unexpired(entries, now) ==
    {ip \in DOMAIN entries : ~(now > entries[ip].ExpiresAt)}

\* the number of entries the second pass of evictOldest deletes, cache.go:
\* 90-100: it deletes one, counts, and stops when count >= maxSize / 10
evicted(live) ==
    IF Cardinality(live) < maxSize THEN 0
    ELSE LET target == maxSize \div 10
         IN IF target < 1 THEN 1
            ELSE IF target < Cardinality(live) THEN target
            ELSE Cardinality(live)

\* the sets of addresses a Set may delete: map iteration order picks them
Victims(entries, now) ==
    IF Cardinality(DOMAIN entries) < maxSize THEN {{}}
    ELSE {v \in SUBSET unexpired(entries, now) :
             Cardinality(v) = evicted(unexpired(entries, now))}

\* Cache.Set, cache.go:57-70
cacheSet(entries, ip, info, now, victims) ==
    LET kept == IF Cardinality(DOMAIN entries) >= maxSize
                THEN unexpired(entries, now) \ victims
                ELSE DOMAIN entries
    IN [a \in kept \cup {ip} |->
           IF a = ip THEN [Info |-> info, ExpiresAt |-> now + ttl]
           ELSE entries[a]]

\* the fallback of ResolveIP, resolver.go:74-78
fallbackInfo(ip) == ServiceInfo(ip, "", "")

\* ResolveIP, resolver.go:50-95: the value and error returned, the cache it
\* leaves, and the number of queryK8sAPI calls it made
ResolveIP(entries, ip, now, waitErr, api, victims) ==
    LET cached == cacheGet(entries, ip, now)
        q == queryK8sAPI(ip, api)
    IN IF cached # NilInfo
       THEN [info |-> cached, err |-> FALSE, entries |-> entries,
             backend |-> 0, failed |-> FALSE]
       ELSE IF waitErr
       THEN [info |-> NilInfo, err |-> TRUE, entries |-> entries,
             backend |-> 0, failed |-> TRUE]
       ELSE IF q.err
       THEN [info |-> fallbackInfo(ip), err |-> FALSE,
             entries |-> cacheSet(entries, ip, fallbackInfo(ip), now, victims),
             backend |-> 1, failed |-> TRUE]
       ELSE [info |-> q.info, err |-> FALSE,
             entries |-> cacheSet(entries, ip, q.info, now, victims),
             backend |-> 1, failed |-> FALSE]

notResolver == <<comp, retryVars, fetchVars, baseVars, modelVars, analyzerVars,
                 scorerVars, cliVars, laterVars>>

\* buildServiceModel, service_analyzer.go:22-49: a new service asks the
\* resolver and copies the answer when there is no error; the fold goes on
\* either way
ResolveNewService(ip, waitErr, api, victims) ==
    /\ comp = "resolver"
    /\ Len(lookups) < MaxLookups
    /\ LET r == ResolveIP(cache, ip, clock, waitErr, api, victims)
           copied == ~r.err /\ r.info # NilInfo
       IN /\ cache' = r.entries
          /\ lookups' = Append(lookups,
                [ip |-> ip, at |-> clock, failed |-> r.failed,
                 info |-> r.info, err |-> r.err, backend |-> r.backend,
                 cached |-> cacheGet(r.entries, ip, clock),
                 K8sService |-> IF copied THEN r.info.Service ELSE ""])
    /\ UNCHANGED <<clock, notResolver>>

\* time passes between two lookups
ResolverTick ==
    /\ comp = "resolver"
    /\ clock < MaxClock
    /\ clock' = clock + 1
    /\ UNCHANGED <<cache, lookups, notResolver>>

InitResolver ==
    /\ comp = "resolver"
    /\ IdleRetry
    /\ qlog = <<>>
    /\ IdleFetch
    /\ IdleBaseline /\ IdleAnalyzer /\ IdleScorer /\ IdleCli
    /\ IdleResolver
    /\ IdleLater

NextResolver ==
    \/ \E ip \in Addresses, waitErr \in BOOLEAN, api \in ApiOutcomes :
          \E victims \in Victims(cache, clock) :
             ResolveNewService(ip, waitErr, api, victims)
    \/ ResolverTick

SpecResolver == InitResolver /\ [][NextResolver]_vars

\* C17: graceful fallback.  Whenever an error occurs during the resolution of
\* an address, ResolveIP returns no error and the synthetic identity (name =
\* the address, empty group and instance) and leaves it in the cache, and the
\* next lookup of that address within the TTL does no backend work.
C17_GracefulFallback ==
    /\ \A i \in DOMAIN lookups :
          lookups[i].failed =>
             /\ ~lookups[i].err
             /\ lookups[i].info = fallbackInfo(lookups[i].ip)
             /\ lookups[i].cached = fallbackInfo(lookups[i].ip)
    /\ \A i \in DOMAIN lookups :
          ( /\ i + 1 \in DOMAIN lookups
            /\ lookups[i].failed
            /\ lookups[i + 1].ip = lookups[i].ip
            /\ lookups[i + 1].at <= lookups[i].at + ttl )
          => /\ lookups[i + 1].backend = 0
             /\ lookups[i + 1].info = fallbackInfo(lookups[i].ip)

\* C18: the sequence FetchQueryLogs returns holds no query_id twice, also when
\* rows are added to the query log between two page queries.
C18_NoDuplicateQueryIds ==
    fpc = "returned" =>
        \A i, j \in DOMAIN Delivered :
            Delivered[i].id = Delivered[j].id => i = j

----------------------------------------------------------------------------
(* Two runs of the recommender over the same tables and services            *)

MaxStableTables == 2

\* the tables of the two runs: ordinary names, no materialized views
StableTableMaps ==
    {m \in UNION {[ns -> UNION {{Table(n, reads, writes, Now - days * Day, FALSE) :
                                    reads \in {0, 2000}, writes \in {0, 10},
                                    days \in {2, 120}} : n \in ns}] :
                    ns \in {x \in SUBSET {nameDb, nameDb2, nameSystems} :
                               Cardinality(x) <= MaxStableTables}} :
        \A n \in DOMAIN m : m[n].FullName = n}

\* the tables as the analyzer hands them over: Score and Category are only
\* set by GenerateRecommendations (recommendations.go:39-40)
unscored(tbls) ==
    [n \in DOMAIN tbls |-> [tbls[n] EXCEPT !.Score = 0, !.Category = ""]]

\* the tool is run once more over the same query log and catalog: the
\* analyzer rebuilds the same tables and services
RunAgain ==
    /\ comp = "scorer"
    /\ spc = "done"
    /\ pastRecs = <<>>
    /\ pastRecs' = Append(pastRecs, cleanupRecs)
    /\ tables' = unscored(tables)
    /\ cleanupRecs' = EmptyRecs
    /\ spc' = "start"
    /\ UNCHANGED <<services, edges, anomalies>>
    /\ UNCHANGED notScorer

InitStable ==
    /\ comp = "scorer"
    /\ IdleRetry
    /\ qlog = <<>>
    /\ IdleFetch
    /\ IdleCli
    /\ IdleResolver
    /\ IdleLater
    /\ IdleBaseline
    /\ logEntries = <<>> /\ catalog = <<>>
    /\ acfg = [DetectUnusedTables |-> FALSE, ExcludeTables |-> <<>>,
              ExcludeDatabases |-> <<>>, ResolveK8s |-> FALSE,
              AnomalyDetection |-> FALSE]
    /\ apc = "idle"
    /\ tables \in StableTableMaps
    /\ services \in {ServiceMap(k, tables) : k \in {0, 6}}
    /\ edges = EmptyMap /\ anomalies = <<>>
    /\ cleanupRecs = EmptyRecs
    /\ spc = "start"
    /\ pastRecs = <<>>

NextStable ==
    \/ \E names \in KeyOrders(tables) : CallGenerateRecommendations(names)
    \/ RunAgain

SpecStable == InitStable /\ [][NextStable]_vars

\* C19: the second of two runs over the same inputs emits the same
\* safe-to-drop, likely-safe and keep lists as the first, entry by entry.
C19_BucketsStableAcrossRuns ==
    (spc = "done" /\ pastRecs # <<>>) =>
        /\ cleanupRecs.SafeToDrop = pastRecs[1].SafeToDrop
        /\ cleanupRecs.LikelySafe = pastRecs[1].LikelySafe
        /\ cleanupRecs.Keep = pastRecs[1].Keep

----------------------------------------------------------------------------
(* SimpleScorer.Score applied to two tables of one run                      *)

MaxClients == 6

\* the last-access times tried: never accessed, both sides of the 90, 30 and
\* 7 day steps, the instant of the run, and a clock ahead of the run's
AccessTimes ==
    {ZeroTime, Now - 90 * Day, Now - 90 * Day + 1, Now - 30 * Day,
     Now - 30 * Day + 1, Now - 7 * Day, Now - 7 * Day + 1, Now, Now + Day}

\* two tables db.t and db.u
ScorePairs ==
    {m \in [{nameDb, nameDb2} ->
               {Table(n, reads, writes, at, FALSE) :
                   n \in {nameDb, nameDb2}, reads \in {0, 2000},
                   writes \in {0, 10}, at \in AccessTimes}] :
        \A n \in DOMAIN m : m[n].FullName = n}

\* k services that use only the table `name`
OnlyServices(k, name) == [s \in 1..k |-> [TablesUsed |-> <<name>>]]

\* scorer.Score(table, services) and Categorize for one table, as in the
\* loop body of GenerateRecommendations (recommendations.go:35-40)
ScoreTable(n) ==
    /\ comp = "score"
    /\ n \in DOMAIN tables
    /\ tables[n].Category = ""
    /\ tables' = [tables EXCEPT
                     ![n].Score = Score(tables[n], services),
                     ![n].Category = Categorize(Score(tables[n], services))]
    /\ UNCHANGED <<services, edges, anomalies>>
    /\ UNCHANGED <<notScorer, scorerVars>>

InitScore ==
    /\ comp = "score"
    /\ IdleRetry
    /\ qlog = <<>>
    /\ IdleFetch
    /\ IdleCli
    /\ IdleResolver
    /\ IdleLater
    /\ IdleBaseline
    /\ IdleScorer
    /\ logEntries = <<>> /\ catalog = <<>>
    /\ acfg = [DetectUnusedTables |-> FALSE, ExcludeTables |-> <<>>,
              ExcludeDatabases |-> <<>>, ResolveK8s |-> FALSE,
              AnomalyDetection |-> FALSE]
    /\ apc = "idle"
    /\ tables \in ScorePairs
    /\ services \in {ServiceMap(k, tables) : k \in 0..MaxClients}
                    \cup {OnlyServices(3, nameDb)}
    /\ edges = EmptyMap /\ anomalies = <<>>

NextScore == \E n \in {nameDb, nameDb2} : ScoreTable(n)

SpecScore == InitScore /\ [][NextScore]_vars

----------------------------------------------------------------------------
(* The commands of the tool and what they send to ClickHouse and to the     *)
(* Kubernetes API: analyze (runAnalyze) and deploy (runDeploy)              *)

MaxBatches == 2          \* largest number of batch queries of one analyze run
MaxAddresses == 2        \* largest number of client addresses resolved

\* the statements the collector sends (part_011:62, 96-115, 338-350)
stmtDescribe == "DESCRIBE TABLE system.query_log"
stmtQueryLog == "SELECT ... FROM system.query_log ... LIMIT ? OFFSET ?"
stmtTables == "SELECT ... FROM system.tables"

\* the statements that read
ReadStatements == {stmtDescribe, stmtQueryLog, stmtTables}

\* the API verbs that read
ReadVerbs == {"get", "list"}

notCommands == <<comp, retryVars, fetchVars, baseVars, modelVars, analyzerVars,
                 scorerVars, cliVars, resolverVars, poolVars, reportVars>>

\* Collect, first part: CheckSchema in verbose mode (part_011:89-94)
AnalyzeCheckSchema ==
    /\ comp = "commands"
    /\ command.name = "analyze" /\ mpc = "start"
    /\ dbLog' = IF command.Verbose THEN Append(dbLog, stmtDescribe) ELSE dbLog
    /\ mpc' = "fetch"
    /\ UNCHANGED <<command, k8sLog, localFiles, notCommands>>

\* one batch query of FetchQueryLogs (part_011:121-167); `last` says the
\* loop ends with this batch
AnalyzeFetchBatch(last) ==
    /\ comp = "commands"
    /\ command.name = "analyze" /\ mpc = "fetch"
    /\ Len(SelectSeq(dbLog, LAMBDA q : q = stmtQueryLog)) < MaxBatches
    /\ dbLog' = Append(dbLog, stmtQueryLog)
    /\ mpc' = IF last \/ Len(SelectSeq(dbLog', LAMBDA q : q = stmtQueryLog))
                            = MaxBatches
              THEN "enrich" ELSE "fetch"
    /\ UNCHANGED <<command, k8sLog, localFiles, notCommands>>

\* Analyze: enrichWithCompleteInventory reads system.tables when unused
\* tables are to be detected (analyzer.go:55-59, part_011:338-354)
AnalyzeFetchMetadata ==
    /\ comp = "commands"
    /\ command.name = "analyze" /\ mpc = "enrich"
    /\ dbLog' = IF command.DetectUnusedTables THEN Append(dbLog, stmtTables)
                ELSE dbLog
    /\ mpc' = "resolve"
    /\ UNCHANGED <<command, k8sLog, localFiles, notCommands>>

\* queryK8sAPI for one address (resolver.go:115-140, 152, 180): the pods
\* are listed and, unless that call fails, the services
AnalyzeResolve(listFails) ==
    /\ comp = "commands"
    /\ command.name = "analyze" /\ mpc = "resolve"
    /\ command.ResolveK8s
    /\ Len(SelectSeq(k8sLog, LAMBDA c : c.resource = "pods")) < MaxAddresses
    /\ k8sLog' = k8sLog \o <<[verb |-> "list", resource |-> "pods"]>>
                   \o (IF listFails THEN <<>>
                       ELSE <<[verb |-> "list", resource |-> "services"]>>)
    /\ UNCHANGED <<command, mpc, dbLog, localFiles, notCommands>>

\* runAnalyze from applyBaseline on (deploy.go:817-832): the baseline file
\* and the report files
AnalyzeWrite ==
    /\ comp = "commands"
    /\ command.name = "analyze" /\ mpc = "resolve"
    /\ localFiles' = localFiles
                       \cup (IF command.UpdateBaseline THEN {"baseline"} ELSE {})
                       \cup (IF command.DryRun THEN {} ELSE {"report"})
    /\ mpc' = "done"
    /\ UNCHANGED <<command, dbLog, k8sLog, notCommands>>

\* createNamespaceIfNotExists (deploy.go:200-219)
DeployNamespace(fails) ==
    /\ comp = "commands"
    /\ command.name = "deploy" /\ mpc = "start"
    /\ k8sLog' = Append(k8sLog, [verb |-> "create", resource |-> "namespaces"])
    /\ mpc' = IF fails THEN "failed" ELSE "configmap"
    /\ UNCHANGED <<command, dbLog, localFiles, notCommands>>

\* the delete-then-create of createConfigMapFromDirectory, createDeployment,
\* createService and createIngress (deploy.go:263-283, 358-370, 400-412,
\* 454-466); outcome says which call fails
replace(resource, outcome) ==
    IF outcome = "deleteFails"
    THEN <<[verb |-> "delete", resource |-> resource]>>
    ELSE <<[verb |-> "delete", resource |-> resource],
           [verb |-> "create", resource |-> resource]>>

DeployConfigMap(outcome) ==
    /\ comp = "commands"
    /\ command.name = "deploy" /\ mpc = "configmap"
    /\ k8sLog' = k8sLog \o replace("configmaps", outcome)
    /\ mpc' = IF outcome = "ok" THEN "deployment" ELSE "failed"
    /\ UNCHANGED <<command, dbLog, localFiles, notCommands>>

DeployDeployment(outcome) ==
    /\ comp = "commands"
    /\ command.name = "deploy" /\ mpc = "deployment"
    /\ k8sLog' = k8sLog \o replace("deployments", outcome)
    /\ mpc' = IF outcome = "ok" THEN "service" ELSE "failed"
    /\ UNCHANGED <<command, dbLog, localFiles, notCommands>>

\* createService, then createIngress when a host is given: a failure of
\* the Ingress is only logged (deploy.go:130-142)
DeployService(outcome, ingressOutcome) ==
    /\ comp = "commands"
    /\ command.name = "deploy" /\ mpc = "service"
    /\ k8sLog' = k8sLog \o replace("services", outcome)
                   \o (IF outcome = "ok" /\ command.IngressHost # ""
                       THEN replace("ingresses", ingressOutcome) ELSE <<>>)
    /\ mpc' = IF outcome = "ok" THEN "wait" ELSE "failed"
    /\ UNCHANGED <<command, dbLog, localFiles, notCommands>>

\* waitForDeployment (deploy.go:470-488): one poll
DeployWait(ready) ==
    /\ comp = "commands"
    /\ command.name = "deploy" /\ mpc = "wait"
    /\ k8sLog' = Append(k8sLog, [verb |-> "get", resource |-> "deployments"])
    /\ mpc' = IF ready THEN "done" ELSE "failed"
    /\ UNCHANGED <<command, dbLog, localFiles, notCommands>>

\* the command lines tried
CommandLines ==
    [name : {"analyze"}, Verbose : BOOLEAN, DetectUnusedTables : BOOLEAN,
     ResolveK8s : BOOLEAN, UpdateBaseline : BOOLEAN, DryRun : BOOLEAN]
    \cup [name : {"deploy"}, IngressHost : {"", "clickspectre.example.com"}]

ReplaceOutcomes == {"ok", "deleteFails", "createFails"}

InitCommands ==
    /\ comp = "commands"
    /\ IdleRetry
    /\ qlog = <<>>
    /\ IdleFetch
    /\ IdleBaseline /\ IdleAnalyzer /\ IdleScorer /\ IdleCli
    /\ IdleResolver
    /\ IdlePool /\ IdleReport
    /\ command \in CommandLines
    /\ mpc = "start"
    /\ dbLog = <<>> /\ k8sLog = <<>> /\ localFiles = {}

NextCommands ==
    \/ AnalyzeCheckSchema
    \/ \E last \in BOOLEAN : AnalyzeFetchBatch(last)
    \/ AnalyzeFetchMetadata
    \/ \E listFails \in BOOLEAN : AnalyzeResolve(listFails)
    \/ AnalyzeWrite
    \/ \E fails \in BOOLEAN : DeployNamespace(fails)
    \/ \E o \in ReplaceOutcomes : DeployConfigMap(o)
    \/ \E o \in ReplaceOutcomes : DeployDeployment(o)
    \/ \E o \in ReplaceOutcomes, i \in ReplaceOutcomes : DeployService(o, i)
    \/ \E ready \in BOOLEAN : DeployWait(ready)

SpecCommands == InitCommands /\ [][NextCommands]_vars

\* C21: no command writes to the database or to the orchestrator: every
\* statement sent to ClickHouse reads, and every Kubernetes API call is a
\* get or a list.
C21_NothingWrittenOutside ==
    /\ \A i \in DOMAIN dbLog : dbLog[i] \in ReadStatements
    /\ \A i \in DOMAIN k8sLog : k8sLog[i].verb \in ReadVerbs

----------------------------------------------------------------------------
(* The pagination loop of FetchQueryLogs                                    *)

\* the steps of the goroutine that runs FetchQueryLogs, the answer of the
\* server to a query, and the timer of a backoff sleep
FetchSteps ==
    \/ FetchRetryStep
    \/ \E e \in FetchQueryErrors \cup {NoErr} : FetchQueryReturn(e)
    \/ FetchAfterRetry
    \/ \E k \in 0..MaxLog, e \in IterErrors \cup {NoErr} : FetchProcessBatch(k, e)
    \/ FetchSleepDone
    \/ FetchSleepCancelled

\* the goroutine keeps running, every query is answered and every sleep ends
SpecFetchFair == SpecFetch /\ WF_vars(FetchSteps)

\* a batch query is issued: the first attempt of a batch
batchIssued == offsets' # offsets

\* an attempt of a batch query starts
attemptStarted == pc # "infn" /\ pc' = "infn"

\* C22: the batch queries are issued at OFFSET 0, batch_size, 2*batch_size,
\* ...; none is issued after a batch that yielded fewer rows than batch_size,
\* once the rows yielded reach max_rows, once the context is cancelled, or
\* after a batch has exhausted its retries; and FetchQueryLogs returns for
\* every finite log.
C22_PaginationStops ==
    /\ [][/\ batchIssued =>
               /\ offsets' = Append(offsets, Len(offsets) * fcfg.BatchSize)
               /\ Len(allEntries) = Len(offsets) * fcfg.BatchSize
               /\ Len(offsets) > 0 => totalProcessed < fcfg.MaxRows
          /\ attemptStarted => ~ctxDone(ctx)
          /\ (pc = "done" /\ retErr # NoErr) => (~batchIssued /\ ~attemptStarted)
          /\ fpc = "returned" => (~batchIssued /\ ~attemptStarted)]_vars
    /\ (fpc # "idle") ~> (fpc = "returned")

\* three batches of one row each, ended by max_rows
C22_Witness ==
    /\ fpc = "returned" /\ fetchErr = NoErr
    /\ fcfg.BatchSize = 1 /\ fcfg.MaxRows = 3
    /\ offsets = <<0, 1, 2>>
    /\ Len(allEntries) = 3

----------------------------------------------------------------------------
(* processBatch when the row iterator reports an error                      *)

\* the rows a batch had emitted when the iterator stopped after k rows
emitted(k) == keepScanned(SubSeq(rows, 1, k))

\* C23: when the row iterator reports an error, the batch yields the rows
\* accumulated so far and no error if at least one row was emitted, and the
\* error if none was.
C23_PartialBatchKept ==
    [][\A k \in 0..MaxLog, e \in IterErrors :
          FetchProcessBatch(k, e) =>
             IF emitted(k) # <<>>
             THEN allEntries' = allEntries \o emitted(k) /\ fetchErr' = NoErr
             ELSE allEntries' = allEntries /\ fetchErr' = e
                  /\ fpc' = "returned"]_vars

\* a full page of two valid rows of which one was kept: the iterator failed
\* after the first
C23_Witness ==
    /\ fpc = "returned" /\ fetchErr = NoErr
    /\ fcfg.BatchSize = 2 /\ offsets = <<0>>
    /\ Len(rows) = 2 /\ rows[1].ok /\ rows[2].ok
    /\ allEntries = <<rows[1]>>

----------------------------------------------------------------------------
(* The backoff schedule of executeWithRetry                                 *)

\* the sleeps follow the schedule: the initial backoff first, then twice the
\* previous sleep, at most the maximum backoff
onSchedule ==
    \A i \in DOMAIN sleeps :
       sleeps[i] = IF i = 1 THEN normalized(cfg).initialBackoff
                   ELSE Min(2 * sleeps[i - 1], normalized(cfg).maxBackoff)

\* C24 as stated: k attempts imply exactly k - 1 sleeps, the first sleep is
\* the initial backoff and each later one twice the previous, capped at the
\* maximum backoff.
C24_BackoffSchedule ==
    /\ onSchedule
    /\ (pc = "done" /\ outcomes # <<>>) => Len(sleeps) = Len(outcomes) - 1

\* C24, amended: the sleeps follow the schedule, and k attempts imply exactly
\* k - 1 sleeps unless the context ended during the sleep issued after the
\* last attempt, which makes k sleeps.
C24_BackoffScheduleUnlessCtxDone ==
    /\ onSchedule
    /\ (pc = "done" /\ outcomes # <<>>) =>
          \/ Len(sleeps) = Len(outcomes) - 1
          \/ ctxDone(ctx) /\ Len(sleeps) = Len(outcomes)
    /\ pc = "sleep" => Len(sleeps) = Len(outcomes)
    /\ pc \in {"loop", "infn"} => Len(sleeps) = attempt - 1

\* four attempts with the sleeps 10, 20 and 30: the last one capped
C24_Witness ==
    /\ comp = "retry" /\ pc = "done" /\ ~ctxDone(ctx)
    /\ Len(outcomes) = 4
    /\ normalized(cfg).initialBackoff = 10 /\ normalized(cfg).maxBackoff = 30
    /\ sleeps = <<10, 20, 30>>

----------------------------------------------------------------------------
(* Cancellation of the parent context during executeWithRetry               *)

\* the goroutine keeps running, fn returns, and a sleep whose context is
\* done returns; nothing is assumed about the timer of a sleep
SpecRetryFair ==
    /\ SpecRetry
    /\ WF_vars(RetryStep)
    /\ WF_vars(\E e \in QueryErrors \cup {NoErr} : RetryFnReturn(e))
    /\ WF_vars(RetrySleepCancelled)

\* the caller has cancelled the parent context
parentCancelled == ctx.err = CtxCanceled /\ ctx.cause = CtxCanceled

\* C25 as stated: once the parent context is cancelled no further attempt
\* is started, and the cancellation error is returned.
C25_CancelFailsFast ==
    parentCancelled =>
       /\ lateCalls = 0
       /\ pc = "done" => retErr = CtxCanceled

\* C25, amended: once the parent context is cancelled no attempt is started,
\* a backoff sleep in flight ends without its timer, and the helper returns
\* the cancellation error, or the result of the attempt that was in flight
\* when that attempt succeeds.
C25_CancelFailsFastOrInFlightSuccess ==
    /\ [][parentCancelled => ~attemptStarted]_vars
    /\ [](parentCancelled /\ pc = "done" =>
            \/ retErr = CtxCanceled
            \/ retErr = NoErr /\ outcomes[Len(outcomes)] = NoErr)
    /\ parentCancelled ~> (pc = "done")

\* the parent was cancelled after a failed first attempt; no second attempt
\* was made and the cancellation error came back
C25_Witness ==
    /\ comp = "retry" /\ parentCancelled
    /\ pc = "done" /\ retErr = CtxCanceled
    /\ Len(outcomes) = 1 /\ sleeps = <<initialRetryBackoff>>
    /\ normalized(cfg).maxAttempts = 3

----------------------------------------------------------------------------
(* Pagination over pages with skipped rows                                  *)

\* a valid row lies on a page after the one just read
validRowLater ==
    \E i \in (offset + fcfg.BatchSize + 1)..Len(qlog) : qlog[i].ok

\* C26: skipping rows does not end pagination: after a full page
\* (batch_size rows) has been iterated without an iterator error, while the
\* rows yielded are below max_rows and a later page holds a valid row, the
\* collector goes on to the next page, whether or not rows of the page were
\* skipped.
C26_SkippedRowsKeepPaging ==
    [][(/\ FetchProcessBatch(Len(rows), NoErr)
        /\ Len(rows) = fcfg.BatchSize
        /\ totalProcessed' < fcfg.MaxRows
        /\ validRowLater)
          => (fpc' = "retry" /\ offset' = offset + fcfg.BatchSize)]_vars

----------------------------------------------------------------------------
(* The worker pool of the collector, internal/collector/worker_pool.go      *)

MaxWorkers == 1          \* largest number of workers of a pool
MaxSubmits == 3          \* largest number of Submit calls
MaxCalls == 2            \* largest number of Start and Stop calls of a caller

notPool == <<comp, retryVars, fetchVars, baseVars, modelVars, analyzerVars,
             scorerVars, cliVars, resolverVars, commandVars, reportVars>>

\* NewWorkerPool: make(chan, workers*2) for jobs and for results
capacity == workers * 2

closeOfClosed == "close of closed channel"
sendOnClosed == "send on closed channel"
nilContext == "nil pointer dereference"

at(t, where, entry) ==
    [callers EXCEPT ![t] = [pc |-> where, arg |-> entry, calls |-> @.calls]]

called(t, where) ==
    [callers EXCEPT ![t] = [pc |-> where, arg |-> 0, calls |-> @.calls + 1]]

running(t) == comp = "pool" /\ ~crashed /\ callers[t].pc = "idle"

\* Start, worker_pool.go:36-52, under p.mu
Start(t) ==
    /\ running(t) /\ callers[t].calls < MaxCalls
    /\ callers' = called(t, "idle")
    /\ IF started
       THEN UNCHANGED <<pctx, started, wg, goroutines, phist>>
       ELSE /\ pctx' = IF parentDone THEN "done" ELSE "live"
            /\ started' = TRUE
            /\ wg' = wg + workers
            /\ goroutines' = goroutines
                               \o [i \in 1..workers |-> [pc |-> "select", job |-> 0]]
            /\ phist' = [phist EXCEPT !.starts = @ + 1]
    /\ UNCHANGED <<workers, jobs, results, closed, parentDone, submitted,
                   readOut, faults, crashed, notPool>>

\* the caller cancels the context it handed to Start
CancelParent ==
    /\ comp = "pool" /\ ~crashed /\ ~parentDone
    /\ parentDone' = TRUE
    /\ pctx' = IF pctx = "live" THEN "done" ELSE pctx
    /\ UNCHANGED <<workers, jobs, results, closed, wg, started, goroutines,
                   callers, submitted, readOut, faults, crashed, phist, notPool>>

exits(i) == [goroutines EXCEPT ![i] = [pc |-> "done", job |-> 0]]

\* worker, the select: `case <-p.ctx.Done()` (worker_pool.go:68-69)
WorkerCtxDone(i) ==
    /\ comp = "pool" /\ ~crashed
    /\ goroutines[i].pc = "select" /\ pctx = "done"
    /\ goroutines' = exits(i)
    /\ wg' = wg - 1
    /\ UNCHANGED <<workers, jobs, results, closed, pctx, started, parentDone,
                   callers, submitted, readOut, faults, crashed, phist, notPool>>

\* worker, the select: `case job, ok := <-p.jobs` (worker_pool.go:70-73);
\* a closed and drained channel delivers ok = false
WorkerReceive(i) ==
    /\ comp = "pool" /\ ~crashed
    /\ goroutines[i].pc = "select"
    /\ IF jobs # <<>>
       THEN /\ goroutines' = [goroutines EXCEPT ![i] =
                                 [pc |-> "send", job |-> Head(jobs)]]
            /\ jobs' = Tail(jobs)
            /\ UNCHANGED wg
       ELSE /\ "jobs" \in closed
            /\ goroutines' = exits(i)
            /\ wg' = wg - 1
            /\ UNCHANGED jobs
    /\ UNCHANGED <<workers, results, closed, pctx, started, parentDone,
                   callers, submitted, readOut, faults, crashed, phist, notPool>>

\* worker, `p.results <- job` (worker_pool.go:78): blocks while the buffer
\* is full; on a closed channel it panics and the deferred recover ends the
\* worker (worker_pool.go:56-64)
WorkerSend(i) ==
    /\ comp = "pool" /\ ~crashed
    /\ goroutines[i].pc = "send"
    /\ IF "results" \in closed
       THEN /\ faults' = faults \cup {sendOnClosed}
            /\ goroutines' = exits(i)
            /\ wg' = wg - 1
            /\ UNCHANGED results
       ELSE /\ Len(results) < capacity
            /\ results' = Append(results, goroutines[i].job)
            /\ goroutines' = [goroutines EXCEPT ![i] =
                                 [pc |-> "select", job |-> 0]]
            /\ UNCHANGED <<faults, wg>>
    /\ UNCHANGED <<workers, jobs, closed, pctx, started, parentDone, callers,
                   submitted, readOut, crashed, phist, notPool>>

\* Submit is called (worker_pool.go:84-85): p.ctx is nil before Start
SubmitCall(t) ==
    /\ running(t) /\ phist.submits < MaxSubmits
    /\ phist' = [phist EXCEPT !.submits = @ + 1,
                              !.lateSubmit = @ \/ phist.stopCalls > 0]
    /\ IF pctx = "nil"
       THEN /\ faults' = faults \cup {nilContext}
            /\ crashed' = TRUE
            /\ UNCHANGED callers
       ELSE /\ callers' = at(t, "submit", phist.submits + 1)
            /\ UNCHANGED <<faults, crashed>>
    /\ UNCHANGED <<workers, jobs, results, closed, wg, pctx, started,
                   parentDone, goroutines, submitted, readOut, notPool>>

\* Submit, the select: `case <-p.ctx.Done()` (worker_pool.go:86-87)
SubmitCtxDone(t) ==
    /\ comp = "pool" /\ ~crashed
    /\ callers[t].pc = "submit" /\ pctx = "done"
    /\ callers' = at(t, "idle", 0)
    /\ UNCHANGED <<workers, jobs, results, closed, wg, pctx, started,
                   parentDone, goroutines, submitted, readOut, faults, crashed,
                   phist, notPool>>

\* Submit, the select: `case p.jobs <- entry` (worker_pool.go:88); the send
\* blocks while the buffer is full and panics on a closed channel
SubmitSend(t) ==
    /\ comp = "pool" /\ ~crashed
    /\ callers[t].pc = "submit"
    /\ IF "jobs" \in closed
       THEN /\ faults' = faults \cup {sendOnClosed}
            /\ crashed' = TRUE
            /\ UNCHANGED <<jobs, submitted, callers>>
       ELSE /\ Len(jobs) < capacity
            /\ jobs' = Append(jobs, callers[t].arg)
            /\ submitted' = Append(submitted, callers[t].arg)
            /\ callers' = at(t, "idle", 0)
            /\ UNCHANGED <<faults, crashed>>
    /\ UNCHANGED <<workers, results, closed, wg, pctx, started, parentDone,
                   goroutines, readOut, phist, notPool>>

\* Stop, worker_pool.go:104-109: the test of p.started under p.mu
StopCall(t) ==
    /\ running(t) /\ callers[t].calls < MaxCalls
    /\ IF ~started
       THEN /\ callers' = called(t, "idle")
            /\ UNCHANGED phist
       ELSE /\ callers' = called(t, "closeJobs")
            /\ phist' = [phist EXCEPT
                           !.stopCalls = @ + 1,
                           !.lateSubmit =
                               @ \/ \E u \in Callers : callers[u].pc = "submit"]
    /\ UNCHANGED <<workers, jobs, results, closed, wg, pctx, started,
                   parentDone, goroutines, submitted, readOut, faults, crashed,
                   notPool>>

\* close(ch) by caller t, who goes on at `next`: closing a closed channel
\* panics
closeChannel(t, ch, next) ==
    IF ch \in closed
    THEN /\ faults' = faults \cup {closeOfClosed}
         /\ crashed' = TRUE
         /\ UNCHANGED <<closed, callers>>
    ELSE /\ closed' = closed \cup {ch}
         /\ callers' = at(t, next, 0)
         /\ UNCHANGED <<faults, crashed>>

\* Stop, worker_pool.go:112: close(p.jobs)
StopCloseJobs(t) ==
    /\ comp = "pool" /\ ~crashed
    /\ callers[t].pc = "closeJobs"
    /\ closeChannel(t, "jobs", "wait")
    /\ UNCHANGED <<workers, jobs, results, wg, pctx, started, parentDone,
                   goroutines, submitted, readOut, phist, notPool>>

\* Stop, worker_pool.go:115: p.wg.Wait()
StopWait(t) ==
    /\ comp = "pool" /\ ~crashed
    /\ callers[t].pc = "wait"
    /\ wg = 0
    /\ callers' = at(t, "closeResults", 0)
    /\ UNCHANGED <<workers, jobs, results, closed, wg, pctx, started,
                   parentDone, goroutines, submitted, readOut, faults, crashed,
                   phist, notPool>>

\* Stop, worker_pool.go:118: close(p.results)
StopCloseResults(t) ==
    /\ comp = "pool" /\ ~crashed
    /\ callers[t].pc = "closeResults"
    /\ closeChannel(t, "results", "closeErrors")
    /\ UNCHANGED <<workers, jobs, results, wg, pctx, started, parentDone,
                   goroutines, submitted, readOut, phist, notPool>>

\* Stop, worker_pool.go:119-124: close(p.errors), then p.cancel()
StopCloseErrors(t) ==
    /\ comp = "pool" /\ ~crashed
    /\ callers[t].pc = "closeErrors"
    /\ closeChannel(t, "errors", "unset")
    /\ pctx' = IF "errors" \in closed THEN pctx ELSE "done"
    /\ UNCHANGED <<workers, jobs, results, wg, started, parentDone,
                   goroutines, submitted, readOut, phist, notPool>>

\* Stop, worker_pool.go:126-128: p.started = false under p.mu; Stop returns
StopReturn(t) ==
    /\ comp = "pool" /\ ~crashed
    /\ callers[t].pc = "unset"
    /\ started' = FALSE
    /\ callers' = at(t, "idle", 0)
    /\ phist' = [phist EXCEPT !.stopReturns = @ + 1]
    /\ UNCHANGED <<workers, jobs, results, closed, wg, pctx, parentDone,
                   goroutines, submitted, readOut, faults, crashed, notPool>>

\* the consumer receives from Results()
ReadResult ==
    /\ comp = "pool" /\ ~crashed
    /\ results # <<>>
    /\ readOut' = Append(readOut, Head(results))
    /\ results' = Tail(results)
    /\ UNCHANGED <<workers, jobs, closed, wg, pctx, started, parentDone,
                   goroutines, callers, submitted, faults, crashed, phist,
                   notPool>>

InitPool ==
    /\ comp = "pool"
    /\ IdleRetry
    /\ qlog = <<>>
    /\ IdleFetch
    /\ IdleBaseline /\ IdleAnalyzer /\ IdleScorer /\ IdleCli
    /\ IdleResolver
    /\ IdleCommands /\ IdleReport
    /\ workers \in 1..MaxWorkers
    /\ jobs = <<>> /\ results = <<>> /\ closed = {} /\ wg = 0
    /\ pctx = "nil" /\ started = FALSE /\ parentDone = FALSE
    /\ goroutines = <<>>
    /\ callers = [t \in Callers |-> [pc |-> "idle", arg |-> 0, calls |-> 0]]
    /\ submitted = <<>> /\ readOut = <<>> /\ faults = {} /\ crashed = FALSE
    /\ phist = [starts |-> 0, stopCalls |-> 0, stopReturns |-> 0,
                submits |-> 0, lateSubmit |-> FALSE]

WorkerSteps ==
    \E i \in DOMAIN goroutines :
       WorkerCtxDone(i) \/ WorkerReceive(i) \/ WorkerSend(i)

StopSteps ==
    \E t \in Callers :
       \/ StopCloseJobs(t)
       \/ StopWait(t)
       \/ StopCloseResults(t)
       \/ StopCloseErrors(t)
       \/ StopReturn(t)

NextPool ==
    \/ \E t \in Callers : Start(t)
    \/ \E t \in Callers : SubmitCall(t)
    \/ \E t \in Callers : SubmitCtxDone(t)
    \/ \E t \in Callers : SubmitSend(t)
    \/ \E t \in Callers : StopCall(t)
    \/ StopSteps
    \/ WorkerSteps
    \/ CancelParent
    \/ ReadResult

SpecPool == InitPool /\ [][NextPool]_vars

\* the worker goroutines run, and a Stop that can go on goes on; the consumer
\* is only known to drain Results() once a Stop has returned
SpecPoolFair ==
    /\ SpecPool
    /\ WF_vars(WorkerSteps)
    /\ WF_vars(StopSteps)
    /\ WF_vars(ReadResult /\ phist.stopReturns > 0)

\* one Start, every Submit returned before the one Stop was called, the
\* context of the pool not cancelled by its owner, and no panic
orderly ==
    /\ phist.starts = 1 /\ phist.stopCalls = 1 /\ ~phist.lateSubmit
    /\ ~parentDone /\ faults = {}

\* the entries of a sequence
Received(q) == {q[i] : i \in DOMAIN q}

\* C27: for any number of entries submitted to a started pool before Stop,
\* with the context of the pool not cancelled, Stop returns, and once it has
\* returned the results channel is closed and yields exactly the submitted
\* entries, each once.
C27_StopReturnsAndDeliversAll ==
    /\ orderly ~> (phist.stopReturns = 1 \/ ~orderly)
    /\ [](orderly /\ phist.stopReturns = 1 =>
            /\ "results" \in closed
            /\ Len(readOut \o results) = Len(submitted)
            /\ Received(readOut \o results) = Received(submitted))

\* C28: whatever the order and interleaving of Start, Submit and Stop on one
\* pool, no channel is closed twice and no value is sent on a closed channel.
C28_NoDoubleCloseNoSendOnClosed ==
    /\ closeOfClosed \notin faults
    /\ sendOnClosed \notin faults

----------------------------------------------------------------------------
(* The bound of the resolver cache and what a full cache evicts             *)

\* the addresses a step has removed from the cache, and those it has kept
\* with their entry
removed == DOMAIN cache \ DOMAIN cache'
retained == {ip \in DOMAIN cache \cap DOMAIN cache' : cache'[ip] = cache[ip]}

\* C29: after every Set the cache holds at most maxSize entries, and a Set
\* that finds the cache full removes the oldest entries: none is evicted
\* while an older one is retained.
C29_BoundedOldestEvicted ==
    /\ [](Cardinality(DOMAIN cache) <= maxSize)
    /\ [][\A gone \in removed, kept \in retained :
             cache[gone].ExpiresAt <= cache[kept].ExpiresAt]_vars

----------------------------------------------------------------------------
(* buildReport, cmd/clickspectre/deploy.go:851-903, and the models it       *)
(* copies.  A slice is a header [arr, len] over a backing array.            *)

MaxArrays == 3           \* largest number of backing arrays allocated
MaxNames == 4            \* largest number of tables a client uses
MaxCount == 2            \* largest counter of a model
MaxLen == 1              \* longest list assigned to a model

notReport == <<comp, retryVars, fetchVars, baseVars, modelVars, analyzerVars,
               scorerVars, cliVars, resolverVars, commandVars, poolVars>>

\* the values the lists of the models hold
Elements == {1, 2}

\* the lists a model is given at once
Lists == UNION {[1..n -> Elements] : n \in 1..MaxLen}

\* the elements of a slice
elems(hdr, mem) == IF hdr.arr = 0 THEN <<>> ELSE SubSeq(mem[hdr.arr], 1, hdr.len)

cap(hdr, mem) == IF hdr.arr = 0 THEN 0 ELSE Len(mem[hdr.arr])

\* everything reachable from the models m in the memory mem
value(m, mem) ==
    [table |-> [Reads |-> m.table.Reads,
                Sparkline |-> elems(m.table.Sparkline, mem),
                MVDependency |-> elems(m.table.MVDependency, mem)],
     service |-> [QueryCount |-> m.service.QueryCount,
                  TablesUsed |-> elems(m.service.TablesUsed, mem)],
     edge |-> [Reads |-> m.edge.Reads]]

\* buildTableModel and buildEdges count a further query
TouchModels ==
    /\ comp = "report"
    /\ an.table.Reads < MaxCount
    /\ an' = [an EXCEPT !.table.Reads = @ + 1, !.edge.Reads = @ + 1,
                        !.service.QueryCount = @ + 1]
    /\ UNCHANGED <<arrays, rep, built, notReport>>

\* service_analyzer.go:57-67: a table that is not in the list yet is added,
\* `service.TablesUsed = append(service.TablesUsed, tableName)`: in place
\* while the array has room, else into a new array of twice the size
AppendTableUsed(name) ==
    /\ comp = "report"
    /\ \A i \in 1..an.service.TablesUsed.len :
          arrays[an.service.TablesUsed.arr][i] # name
    /\ LET hdr == an.service.TablesUsed
           n == hdr.len
       IN IF n < cap(hdr, arrays)
          THEN /\ arrays' = [arrays EXCEPT ![hdr.arr][n + 1] = name]
               /\ an' = [an EXCEPT !.service.TablesUsed.len = n + 1]
          ELSE /\ Len(arrays) < MaxArrays
               /\ arrays' = Append(arrays,
                     [i \in 1..(IF n = 0 THEN 1 ELSE 2 * n) |->
                         IF i <= n THEN elems(hdr, arrays)[i]
                         ELSE IF i = n + 1 THEN name ELSE 0])
               /\ an' = [an EXCEPT !.service.TablesUsed =
                                      [arr |-> Len(arrays) + 1, len |-> n + 1]]
    /\ UNCHANGED <<rep, built, notReport>>

\* `table.Sparkline = points`, table_analyzer.go:100-123: a new slice
generateSparklinesAgain(series) ==
    /\ comp = "report"
    /\ Len(arrays) < MaxArrays
    /\ arrays' = Append(arrays, series)
    /\ an' = [an EXCEPT !.table.Sparkline =
                           [arr |-> Len(arrays) + 1, len |-> Len(series)]]
    /\ UNCHANGED <<rep, built, notReport>>

\* `existing.MVDependency = metaTable.MVDependency`, analyzer.go:139
EnrichDependencies(deps) ==
    /\ comp = "report"
    /\ Len(arrays) < MaxArrays
    /\ arrays' = Append(arrays, deps)
    /\ an' = [an EXCEPT !.table.MVDependency =
                           [arr |-> Len(arrays) + 1, len |-> Len(deps)]]
    /\ UNCHANGED <<rep, built, notReport>>

\* the slices of the models, by the name of their field
slices(m) ==
    [Sparkline |-> m.table.Sparkline, MVDependency |-> m.table.MVDependency,
     TablesUsed |-> m.service.TablesUsed]

\* code that holds a model (Analyzer.Tables and Services hand out the
\* pointers, analyzer.go:92-99) clears an element of one of its lists after
\* the report has been built
WriteElement(field, i) ==
    /\ comp = "report"
    /\ rep # NoReport
    /\ LET hdr == slices(an)[field]
       IN /\ i \in 1..hdr.len
          /\ arrays[hdr.arr][i] # 0
          /\ arrays' = [arrays EXCEPT ![hdr.arr][i] = 0]
    /\ UNCHANGED <<an, rep, built, notReport>>

\* buildReport: `tables = append(tables, *table)` and the like copy the
\* structs, slice headers included
buildReport ==
    /\ comp = "report"
    /\ rep = NoReport
    /\ rep' = an
    /\ built' = value(an, arrays)
    /\ UNCHANGED <<an, arrays, notReport>>

InitReport ==
    /\ comp = "report"
    /\ IdleRetry
    /\ qlog = <<>>
    /\ IdleFetch
    /\ IdleBaseline /\ IdleAnalyzer /\ IdleScorer /\ IdleCli
    /\ IdleResolver
    /\ IdleCommands /\ IdlePool
    /\ an = FreshModels /\ arrays = FreshArrays
    /\ rep = NoReport /\ built = NoReport

NextReport ==
    \/ TouchModels
    \/ \E name \in 1..MaxNames : AppendTableUsed(name)
    \/ \E series \in Lists : generateSparklinesAgain(series)
    \/ \E deps \in Lists : EnrichDependencies(deps)
    \/ \E field \in {"Sparkline", "MVDependency", "TablesUsed"},
          i \in 1..MaxNames : WriteElement(field, i)
    \/ buildReport

SpecReport == InitReport /\ [][NextReport]_vars

\* C30: the report is a deep copy: once it is built, no mutation of the
\* analyzer's table, client and edge models, their activity series,
\* table-use lists and dependency lists included, changes a value reachable
\* from the report.
C30_ReportIsDeepCopy ==
    rep # NoReport => value(rep, arrays) = built

====
